---- MODULE Spec2Model ----
(***************************************************************************)
(* Model of the booking-platform REST backend (api-rooms-node): the        *)
(* per-module bearer-token authenticators, the payment webhook, the        *)
(* favorites, bookings, settings and list handlers, over the tables they   *)
(* touch.                                                                  *)
(*                                                                         *)
(* A request is a record in a slot of req; its pc is the await it is       *)
(* suspended at.  Every call to the hosted backend is an await whose       *)
(* answer the handler cannot choose: "ok" (the call did what was asked),   *)
(* "error" (the call returned { error }) or "throw" (the call, or the      *)
(* building of its arguments, raised an exception).                        *)
(***************************************************************************)
EXTENDS Integers, Sequences, FiniteSets, TLC

\* ------------------------------------------------------------------ bounds

\* Number of request slots (requests that may be in flight together).
MaxReq == 2

\* Rows the bookings table may hold before new requests stop arriving.
MaxRows == 2

Slots == 1..MaxReq

\* ------------------------------------------------------- values and inputs

Undefined == "undefined"
NoUser == "null"
NoClient == "none"
ModuleClient == "module"

Users == {"u1", "u2"}

\* The route modules that define an authenticateUser middleware.
Modules == {"auth", "bookings", "search", "collections", "users", "rooms",
            "rooms_v2", "favorites", "settings"}

\* An Authorization header, as the list of its space-separated segments;
\* the empty list is a request without the header.
Headers == {<< >>, <<"Bearer">>, <<"Bearer", "t1">>, <<"Bearer", "t2">>,
            <<"Bearer", "stale">>}

\* The principal the identity backend knows for a token, if any.
TokenUser(token) ==
    CASE token = "t1" -> "u1"
      [] token = "t2" -> "u2"
      [] OTHER -> NoUser

\* What the identity backend may answer to getUser for a token: a principal
\* only for a token it knows; an error, an empty principal or an exception
\* for any token.
Answers(token) ==
    (IF TokenUser(token) # NoUser THEN {"user"} ELSE {}) \cup {"error", "nouser", "throw"}

\* The rooms table: r1 and r2 exist, r9 does not.
RoomIds == {"r1", "r2", "r9"}
RoomExists(id) == id \in {"r1", "r2"}
RoomPrice(id) == IF id = "r1" THEN 100 ELSE 250

\* The users table, by email.
UserByEmail(email) ==
    CASE email = "u1@example.com" -> "u1"
      [] email = "u2@example.com" -> "u2"
      [] OTHER -> NoUser

\* Outcomes of a data call to the backend.
Outcomes == {"ok", "error", "throw"}

\* ------------------------------------------------------------------- state

VARIABLES
    req,         \* slot -> the request in it
    favorites,   \* favorites table: <<user_id, room_id>> -> number of rows
    bookings,    \* bookings table: the rows in insertion order
    user_stats,  \* user_stats table: user_id -> [bookings, favorites]
    user_settings, \* user_settings table: the rows in insertion order
    users,       \* users table: id -> number of rows
    user_stats_rows, \* user_stats table: user_id -> number of rows
    collections, \* collections table: id -> the row, or Nil
    collection_rooms \* collection_rooms table: collection_id -> set of room_id

vars == <<req, favorites, bookings, user_stats, user_settings, users, user_stats_rows,
          collections, collection_rooms>>

\* A JSON value that is null or undefined where an object may stand.
Nil == [nil |-> TRUE]

IdleReq ==
    [kind |-> "idle", pc |-> "idle", status |-> 0,
     \* authenticator
     module |-> "none", header |-> << >>, token |-> Undefined,
     authClient |-> NoClient, answer |-> "none", next |-> FALSE,
     user |-> NoUser, client |-> NoClient,
     sawUser |-> "none", usedClient |-> NoClient,
     \* request inputs
     roomId |-> "none", startDate |-> "none", endDate |-> "none",
     sigValid |-> FALSE, evType |-> "none", email |-> "none",
     sessionId |-> "none", amountTotal |-> 0,
     \* handler locals
     userId |-> NoUser, roomPrice |-> 0, rowId |-> 0,
     \* bookkeeping of what the request did to the backend
     dbOps |-> 0, inserted |-> 0, statDelta |-> 0, failedAt |-> "none",
     failedHow |-> "none", rowsAtStart |-> 0,
     \* PUT /api/bookings/:id/cancel
     bookingId |-> 0,
     \* settings: the user whose settings are asked for, the clock reading
     \* of the request, the request body and the JSON of the response
     target |-> NoUser, now |-> "none", body |-> Nil, returned |-> Nil,
     \* list endpoints: the query parameters, the number of rows matching
     \* the filters, the range and direction asked of the backend, and the
     \* response
     endpoint |-> "none", page |-> Nil, limit |-> Nil, sort |-> << >>,
     matching |-> 0, rangeFrom |-> 0, rangeTo |-> 0, ascending |-> FALSE,
     data |-> << >>, pagination |-> Nil,
     \* create-checkout-session: the amount of the body, the unit_amount
     \* handed to the payment processor and the calls made to it
     amount |-> [t |-> "undefined"], unitAmount |-> 0, stripeCalls |-> 0,
     \* auth routes: the id of the user object in the response, and the
     \* number of users rows the request's query matched
     principal |-> NoUser, matched |-> 0,
     \* /api/settings/user/:userId: the role in the caller's user_roles row
     \* ("none": no row)
     role |-> "none",
     \* /api/collections/:id: the id, the name and roomIds of the body, and
     \* the collection and its rooms as they were when the request arrived
     collId |-> "none", name |-> Undefined, roomIds |-> Nil,
     prevColl |-> Nil, prevRooms |-> {}]

\* res.status(s).json(...): the response ends the request.
Respond(q, s) == [q EXCEPT !.status = s, !.pc = "done"]

InFlight(q) == q.pc \notin {"idle", "done"}

\* =========================================================================
\* Token Authenticator
\* =========================================================================

\* authHeader.split(' ')[1]
SplitToken(header) == IF Len(header) >= 2 THEN header[2] ELSE Undefined

\* !token
Falsy(token) == token = Undefined \/ token = ""

\* Only routes/auth.js rejects a header without a token itself.
ChecksToken(m) == m = "auth"

\* The settings and users modules verify the token through the module-level
\* client; every other module builds a client bound to the token.
BuildsScopedClient(m) == m \notin {"settings", "users"}

\* The settings and users modules test only `error`, not `!user`.
ChecksNullUser(m) == m \notin {"settings", "users"}

\* The status of the authenticator's catch block.
AuthCatchStatus(m) == IF m \in {"settings", "users"} THEN 401 ELSE 500

\* The client a handler of the module issues its queries through.
HandlerClient(m, q) == IF m \in {"settings", "users"} THEN ModuleClient ELSE q.client

\* First synchronous part of authenticateUser: header check, token split,
\* client construction; it ends at the await of getUser.
AuthHeaderStep(q) ==
    IF q.header = << >>
    THEN Respond(q, 401)
    ELSE LET token == SplitToken(q.header) IN
         IF ChecksToken(q.module) /\ Falsy(token)
         THEN Respond([q EXCEPT !.token = token], 401)
         ELSE [q EXCEPT !.token = token,
                        !.authClient = IF BuildsScopedClient(q.module)
                                       THEN token ELSE ModuleClient,
                        !.pc = "getUser"]

\* Second part: the answer of getUser and what the middleware does with it.
AuthGetUserStep(q, a) ==
    LET q1 == [q EXCEPT !.answer = a] IN
    IF a = "throw" THEN Respond(q1, AuthCatchStatus(q.module))
    ELSE IF a = "error" THEN Respond(q1, 401)
    ELSE IF a = "nouser" /\ ChecksNullUser(q.module) THEN Respond(q1, 401)
    ELSE [q1 EXCEPT !.user = IF a = "user" THEN TokenUser(q.token) ELSE NoUser,
                    !.client = IF BuildsScopedClient(q.module)
                               THEN q.authClient ELSE NoClient,
                    !.next = TRUE,
                    !.pc = "handler"]

\* The settings handlers read req.user.id before anything else; the users
\* handler GET /:id never reads req.user.
DerefsUserFirst(m) == m # "users"

\* A handler behind the authenticator: it reads req.user and issues its
\* queries; a handler that dereferences a null req.user ends in its catch
\* (500) before any query.
HandlerStep(q) ==
    IF q.user = NoUser /\ DerefsUserFirst(q.module)
    THEN Respond([q EXCEPT !.sawUser = q.user], 500)
    ELSE Respond([q EXCEPT !.sawUser = q.user,
                           !.usedClient = HandlerClient(q.module, q),
                           !.dbOps = 1], 200)

AuthArrive(r, m, h) ==
    /\ req[r].pc = "idle"
    /\ req' = [req EXCEPT ![r] = [IdleReq EXCEPT !.kind = "auth", !.pc = "header",
                                                 !.module = m, !.header = h]]
    /\ UNCHANGED <<favorites, bookings, user_stats, user_settings, users, user_stats_rows, collections, collection_rooms>>

AuthHeader(r) ==
    /\ req[r].kind = "auth" /\ req[r].pc = "header"
    /\ req' = [req EXCEPT ![r] = AuthHeaderStep(req[r])]
    /\ UNCHANGED <<favorites, bookings, user_stats, user_settings, users, user_stats_rows, collections, collection_rooms>>

AuthGetUser(r) ==
    /\ req[r].kind = "auth" /\ req[r].pc = "getUser"
    /\ \E a \in Answers(req[r].token) :
          req' = [req EXCEPT ![r] = AuthGetUserStep(req[r], a)]
    /\ UNCHANGED <<favorites, bookings, user_stats, user_settings, users, user_stats_rows, collections, collection_rooms>>

Handler(r) ==
    /\ req[r].kind = "auth" /\ req[r].pc = "handler"
    /\ req' = [req EXCEPT ![r] = HandlerStep(req[r])]
    /\ UNCHANGED <<favorites, bookings, user_stats, user_settings, users, user_stats_rows, collections, collection_rooms>>

\* The response was sent; the slot serves the next request.
Recycle(r) ==
    /\ req[r].pc = "done"
    /\ req' = [req EXCEPT ![r] = IdleReq]
    /\ UNCHANGED <<favorites, bookings, user_stats, user_settings, users, user_stats_rows, collections, collection_rooms>>

\* The collections the requests are about: c1 of u1 and c2 of u2; c9 is
\* the id of no collection.
CollectionIds == {"c1", "c2", "c9"}

InitCollections ==
    [c \in CollectionIds |->
        CASE c = "c1" -> [user_id |-> "u1", name |-> "n0", description |-> "d0"]
          [] c = "c2" -> [user_id |-> "u2", name |-> "n0", description |-> "d0"]
          [] OTHER -> Nil]

InitCollectionRooms ==
    [c \in CollectionIds |->
        CASE c = "c1" -> {"r1"}
          [] c = "c2" -> {"r2"}
          [] OTHER -> {}]

InitTables ==
    /\ favorites = [p \in Users \X RoomIds |-> 0]
    /\ bookings = << >>
    /\ user_stats = [u \in Users |-> [bookings |-> 0, favorites |-> 0]]
    /\ user_settings = << >>
    /\ users = [u \in Users |-> 1]
    /\ user_stats_rows = [u \in Users |-> 1]
    /\ collections = InitCollections
    /\ collection_rooms = InitCollectionRooms

Init ==
    /\ req = [r \in Slots |-> IdleReq]
    /\ InitTables

\* Requests through the authenticators.  The authenticators share no state,
\* so requests are taken one at a time, in slot 1.
NextAuth ==
    \/ \E m \in Modules, h \in Headers : AuthArrive(1, m, h)
    \/ AuthHeader(1)
    \/ AuthGetUser(1)
    \/ Handler(1)
    \/ Recycle(1)

SpecAuth == Init /\ [][NextAuth]_vars

\* =========================================================================
\* Payment webhook (routes/payments.js, POST /webhook)
\* =========================================================================

EventTypes == {"checkout.session.completed", "checkout.session.expired",
               "payment_intent.succeeded"}

Emails == {"u1@example.com", "u2@example.com", "ghost@example.com"}

Is2xx(s) == s >= 200 /\ s <= 299

\* A backend call that did not do what was asked.
Failed(o) == o # "ok"

\* One more backend call issued by the request, for the named step; the
\* step whose call failed, and how it failed, is remembered.
Called(q, o, step) ==
    [q EXCEPT !.dbOps = @ + 1,
              !.failedAt = IF Failed(o) THEN step ELSE @,
              !.failedHow = IF Failed(o) THEN o ELSE @]

\* Faulty variant of SignatureVerified: the signature check is skipped.
SignatureVerified_Skipped(q) == TRUE

\* stripe.webhooks.constructEvent returned (it throws on a bad signature).
SignatureVerified(q) == q.sigValid

\* constructEvent, then the switch on event.type.
WebhookVerifyStep(q) ==
    IF ~SignatureVerified(q) THEN Respond(q, 400)
    ELSE IF q.evType = "checkout.session.completed" THEN [q EXCEPT !.pc = "wh_user"]
    ELSE Respond(q, 200)

\* users lookup by customer_email with .single(): no row is an error.
WebhookUserStep(q, o) ==
    LET q1 == Called(q, o, "user")
        u == UserByEmail(q.email) IN
    IF o = "throw" THEN Respond(q1, 500)
    ELSE IF o = "error" \/ u = NoUser THEN Respond(q1, 500)
    ELSE [q1 EXCEPT !.userId = u, !.pc = "wh_room"]

\* rooms lookup by metadata.room_id with .single().
WebhookRoomStep(q, o) ==
    LET q1 == Called(q, o, "room") IN
    IF o = "throw" THEN Respond(q1, 500)
    ELSE IF o = "error" \/ ~RoomExists(q.roomId) THEN Respond(q1, 404)
    ELSE [q1 EXCEPT !.roomPrice = RoomPrice(q.roomId), !.pc = "wh_insert"]

\* The row the webhook inserts; amount_total is in minor units.
WebhookBookingRow(q) ==
    [user_id |-> q.userId, room_id |-> q.roomId,
     start_date |-> q.startDate, end_date |-> q.endDate,
     price |-> q.amountTotal \div 100, status |-> "active",
     payment_session_id |-> q.sessionId, payment_status |-> "paid"]

\* What the handler does after the user_stats update answered: an error is
\* only logged, an exception reaches the catch block.
WebhookStatsStatus(o) == IF o = "throw" THEN 500 ELSE 200

\* Faulty variant of IncBookings: the value sent is the one read before the
\* first creation, plus one, instead of an increment of the stored counter.
IncBookings_Stale(stats, u) == [stats EXCEPT ![u].bookings = 1]

\* update({ bookings: raw('bookings + 1') }).eq('user_id', id): the backend
\* adds one to the stored counter.
IncBookings(stats, u) == [stats EXCEPT ![u].bookings = @ + 1]

\* A delivery of an event for a checkout session: amt is the session's
\* amount_total, the minor-unit amount the session was created with.
WebhookArrive(r, sig, ty, em, room, sid, amt) ==
    /\ req[r].pc = "idle"
    /\ Len(bookings) < MaxRows
    /\ req' = [req EXCEPT ![r] =
                 [IdleReq EXCEPT !.kind = "webhook", !.pc = "wh_verify",
                                 !.sigValid = sig, !.evType = ty, !.email = em,
                                 !.roomId = room, !.sessionId = sid,
                                 !.startDate = "2024-04-10",
                                 !.endDate = "2024-04-12",
                                 !.amountTotal = amt]]
    /\ UNCHANGED <<favorites, bookings, user_stats, user_settings, users, user_stats_rows, collections, collection_rooms>>

WebhookVerify(r) ==
    /\ req[r].kind = "webhook" /\ req[r].pc = "wh_verify"
    /\ req' = [req EXCEPT ![r] = WebhookVerifyStep(req[r])]
    /\ UNCHANGED <<favorites, bookings, user_stats, user_settings, users, user_stats_rows, collections, collection_rooms>>

WebhookUserLookup(r) ==
    /\ req[r].kind = "webhook" /\ req[r].pc = "wh_user"
    /\ \E o \in Outcomes : req' = [req EXCEPT ![r] = WebhookUserStep(req[r], o)]
    /\ UNCHANGED <<favorites, bookings, user_stats, user_settings, users, user_stats_rows, collections, collection_rooms>>

WebhookRoomLookup(r) ==
    /\ req[r].kind = "webhook" /\ req[r].pc = "wh_room"
    /\ \E o \in Outcomes : req' = [req EXCEPT ![r] = WebhookRoomStep(req[r], o)]
    /\ UNCHANGED <<favorites, bookings, user_stats, user_settings, users, user_stats_rows, collections, collection_rooms>>

WebhookInsert(r) ==
    /\ req[r].kind = "webhook" /\ req[r].pc = "wh_insert"
    /\ \E o \in Outcomes :
          LET q1 == Called(req[r], o, "insert") IN
          IF o = "ok"
          THEN /\ bookings' = Append(bookings, WebhookBookingRow(req[r]))
               /\ req' = [req EXCEPT ![r] =
                            [q1 EXCEPT !.inserted = @ + 1,
                                       !.rowId = Len(bookings) + 1,
                                       !.pc = "wh_stats"]]
          ELSE /\ bookings' = bookings
               /\ req' = [req EXCEPT ![r] = Respond(q1, 500)]
    /\ UNCHANGED <<favorites, user_stats, user_settings, users, user_stats_rows, collections, collection_rooms>>

WebhookStats(r) ==
    /\ req[r].kind = "webhook" /\ req[r].pc = "wh_stats"
    /\ \E o \in Outcomes :
          LET q1 == Called(req[r], o, "stats") IN
          /\ user_stats' = IF o = "ok" THEN IncBookings(user_stats, req[r].userId)
                           ELSE user_stats
          /\ req' = [req EXCEPT ![r] =
                       Respond([q1 EXCEPT !.statDelta = @ + (IF o = "ok" THEN 1 ELSE 0)],
                               WebhookStatsStatus(o))]
    /\ UNCHANGED <<favorites, bookings, user_settings, users, user_stats_rows, collections, collection_rooms>>

\* Webhook deliveries, one at a time.
NextWebhook ==
    \/ \E sig \in BOOLEAN, ty \in EventTypes, em \in Emails,
          room \in {"r1", "r9"}, sid \in {"cs_1", "cs_2"} :
          WebhookArrive(1, sig, ty, em, room, sid, 20000)
    \/ WebhookVerify(1)
    \/ WebhookUserLookup(1)
    \/ WebhookRoomLookup(1)
    \/ WebhookInsert(1)
    \/ WebhookStats(1)
    \/ Recycle(1)

SpecWebhook == Init /\ [][NextWebhook]_vars

\* =========================================================================
\* Favorites (POST /api/favorites)
\* =========================================================================

\* Faulty variant of ExistingFavorite: the check never finds the stored row.
ExistingFavorite_NeverFound(n) == FALSE

\* The duplicate check selects the caller's rows for the room with .single():
\* it yields a row only when exactly one matches; no row, or several, is the
\* PGRST116 error, which the handler takes for "not yet a favorite".
ExistingFavorite(n) == n = 1

\* rooms lookup with .single(): any error, or no row, is answered 404.
FavRoomStep(q, o) ==
    LET q1 == Called(q, o, "room") IN
    IF o = "throw" THEN Respond(q1, 500)
    ELSE IF o = "error" \/ ~RoomExists(q.roomId) THEN Respond(q1, 404)
    ELSE [q1 EXCEPT !.pc = "fav_check"]

\* The duplicate check, given the number n of stored rows for the pair.
FavCheckStep(q, o, n) ==
    LET q1 == Called(q, o, "check") IN
    IF o # "ok" THEN Respond(q1, 500)
    ELSE IF ExistingFavorite(n) THEN Respond(q1, 400)
    ELSE [q1 EXCEPT !.pc = "fav_insert"]

\* What the handler answers after the user_stats update: 201, or 500 from
\* the catch block when the update returned an error or threw.
FavStatsStatus(o) == IF o = "ok" THEN 201 ELSE 500

\* update({ favorites: raw('favorites + 1') }).eq('user_id', id)
IncFavorites(stats, u) == [stats EXCEPT ![u].favorites = @ + 1]

FavStart(r, u, room) ==
    req' = [req EXCEPT ![r] =
              [IdleReq EXCEPT !.kind = "favPost", !.pc = "fav_room",
                              !.module = "favorites", !.next = TRUE,
                              !.user = u, !.roomId = room,
                              !.rowsAtStart = favorites[<<u, room>>]]]

\* A request that passed the authenticator arrives while others may be in
\* flight (slots are taken in order).
FavArrive(r, u, room) ==
    /\ req[r].pc = "idle"
    /\ \A s \in Slots : s < r => req[s].pc # "idle"
    /\ FavStart(r, u, room)
    /\ UNCHANGED <<favorites, bookings, user_stats, user_settings, users, user_stats_rows, collections, collection_rooms>>

\* A request that arrives after every earlier one was answered.
FavArriveSeq(r, u, room) ==
    /\ req[r].pc = "idle"
    /\ \A s \in Slots : s < r => req[s].pc = "done"
    /\ FavStart(r, u, room)
    /\ UNCHANGED <<favorites, bookings, user_stats, user_settings, users, user_stats_rows, collections, collection_rooms>>

FavRoomLookup(r) ==
    /\ req[r].kind = "favPost" /\ req[r].pc = "fav_room"
    /\ \E o \in Outcomes : req' = [req EXCEPT ![r] = FavRoomStep(req[r], o)]
    /\ UNCHANGED <<favorites, bookings, user_stats, user_settings, users, user_stats_rows, collections, collection_rooms>>

FavCheck(r) ==
    /\ req[r].kind = "favPost" /\ req[r].pc = "fav_check"
    /\ \E o \in Outcomes :
          req' = [req EXCEPT ![r] =
                    FavCheckStep(req[r], o, favorites[<<req[r].user, req[r].roomId>>])]
    /\ UNCHANGED <<favorites, bookings, user_stats, user_settings, users, user_stats_rows, collections, collection_rooms>>

FavInsert(r) ==
    /\ req[r].kind = "favPost" /\ req[r].pc = "fav_insert"
    /\ \E o \in Outcomes :
          LET q1 == Called(req[r], o, "insert") IN
          IF o = "ok"
          THEN /\ favorites' = [favorites EXCEPT ![<<req[r].user, req[r].roomId>>] = @ + 1]
               /\ req' = [req EXCEPT ![r] =
                            [q1 EXCEPT !.inserted = @ + 1, !.pc = "fav_stats"]]
          ELSE /\ favorites' = favorites
               /\ req' = [req EXCEPT ![r] = Respond(q1, 500)]
    /\ UNCHANGED <<bookings, user_stats, user_settings, users, user_stats_rows, collections, collection_rooms>>

FavStats(r) ==
    /\ req[r].kind = "favPost" /\ req[r].pc = "fav_stats"
    /\ \E o \in Outcomes :
          LET q1 == Called(req[r], o, "stats") IN
          /\ user_stats' = IF o = "ok" THEN IncFavorites(user_stats, req[r].user)
                           ELSE user_stats
          /\ req' = [req EXCEPT ![r] =
                       Respond([q1 EXCEPT !.statDelta = @ + (IF o = "ok" THEN 1 ELSE 0)],
                               FavStatsStatus(o))]
    /\ UNCHANGED <<favorites, bookings, user_settings, users, user_stats_rows, collections, collection_rooms>>

FavSteps ==
    \E r \in Slots :
        \/ FavRoomLookup(r)
        \/ FavCheck(r)
        \/ FavInsert(r)
        \/ FavStats(r)

\* Concurrent POST /api/favorites requests.
NextFav ==
    \/ \E r \in Slots, u \in Users, room \in {"r1", "r9"} : FavArrive(r, u, room)
    \/ FavSteps

SpecFav == Init /\ [][NextFav]_vars

\* POST /api/favorites requests in sequence.
NextFavSeq ==
    \/ \E r \in Slots, u \in Users, room \in {"r1", "r9"} : FavArriveSeq(r, u, room)
    \/ FavSteps

SpecFavSeq == Init /\ [][NextFavSeq]_vars

\* update({ favorites: raw('favorites - 1') }).eq('user_id', id): the
\* backend subtracts one from the stored counter, whatever its value.
DecFavorites(stats, u) == [stats EXCEPT ![u].favorites = @ - 1]

\* What DELETE answers after the user_stats update.
FavDelStatsStatus(o) == IF o = "ok" THEN 200 ELSE 500

\* DELETE /api/favorites/:roomId by user u, while the counter is within
\* the range explored.
FavDelArrive(r, u, room) ==
    /\ req[r].pc = "idle"
    /\ user_stats[u].favorites > -MaxRows
    /\ req' = [req EXCEPT ![r] =
                 [IdleReq EXCEPT !.kind = "favDelete", !.pc = "favdel_delete",
                                 !.module = "favorites", !.next = TRUE,
                                 !.user = u, !.roomId = room,
                                 !.rowsAtStart = favorites[<<u, room>>]]]
    /\ UNCHANGED <<favorites, bookings, user_stats, user_settings, users, user_stats_rows, collections, collection_rooms>>

\* delete().eq('user_id', id).eq('room_id', roomId): every matching row
\* goes; deleting nothing is not an error.
FavDelDelete(r) ==
    /\ req[r].kind = "favDelete" /\ req[r].pc = "favdel_delete"
    /\ \E o \in Outcomes :
          LET q1 == Called(req[r], o, "delete") IN
          IF o = "ok"
          THEN /\ favorites' = [favorites EXCEPT ![<<req[r].user, req[r].roomId>>] = 0]
               /\ req' = [req EXCEPT ![r] = [q1 EXCEPT !.pc = "favdel_stats"]]
          ELSE /\ favorites' = favorites
               /\ req' = [req EXCEPT ![r] = Respond(q1, 500)]
    /\ UNCHANGED <<bookings, user_stats, user_settings, users, user_stats_rows, collections, collection_rooms>>

FavDelStats(r) ==
    /\ req[r].kind = "favDelete" /\ req[r].pc = "favdel_stats"
    /\ \E o \in Outcomes :
          LET q1 == Called(req[r], o, "stats") IN
          /\ user_stats' = IF o = "ok" THEN DecFavorites(user_stats, req[r].user)
                           ELSE user_stats
          /\ req' = [req EXCEPT ![r] =
                       Respond([q1 EXCEPT !.statDelta = @ - (IF o = "ok" THEN 1 ELSE 0)],
                               FavDelStatsStatus(o))]
    /\ UNCHANGED <<favorites, bookings, user_settings, users, user_stats_rows, collections, collection_rooms>>

\* POST /api/favorites by user u, while the counter is within the range
\* explored.
FavArriveCap(r, u, room) ==
    /\ req[r].pc = "idle"
    /\ user_stats[u].favorites < MaxRows
    /\ FavStart(r, u, room)
    /\ UNCHANGED <<favorites, bookings, user_stats, user_settings, users, user_stats_rows, collections, collection_rooms>>

\* POST and DELETE calls of user u1, one at a time.
NextFavLedger ==
    \/ \E room \in RoomIds :
          \/ FavArriveCap(1, "u1", room)
          \/ FavDelArrive(1, "u1", room)
    \/ FavRoomLookup(1)
    \/ FavCheck(1)
    \/ FavInsert(1)
    \/ FavStats(1)
    \/ FavDelDelete(1)
    \/ FavDelStats(1)
    \/ Recycle(1)

SpecFavLedger == Init /\ [][NextFavLedger]_vars

\* =========================================================================
\* Bookings (POST /api/bookings)
\* =========================================================================

\* 1000 * 60 * 60 * 24
MsPerDay == 1000 * 60 * 60 * 24

\* new Date(s).getTime() for the date strings requests carry, in
\* milliseconds counted from 2024-04-10T00:00:00Z (a date-only string is
\* midnight UTC).
DateMs(s) ==
    CASE s = "2024-04-10" -> 0
      [] s = "2024-04-10T12:00:00Z" -> 12 * 60 * 60 * 1000
      [] s = "2024-04-11" -> MsPerDay
      [] s = "2024-04-12" -> 2 * MsPerDay

\* The (startDate, endDate) pairs of the requests: whole days, part of a
\* day, an empty span and a reversed span.
DatePairs ==
    {<<"2024-04-10", "2024-04-12">>, <<"2024-04-10", "2024-04-10T12:00:00Z">>,
     <<"2024-04-10T12:00:00Z", "2024-04-12">>, <<"2024-04-11", "2024-04-11">>,
     <<"2024-04-12", "2024-04-10">>}

\* Faulty variant of CeilDiv: the night count is rounded down.
CeilDiv_Floor(a, b) == a \div b

\* Math.ceil(a / b) for b > 0.
CeilDiv(a, b) == -((-a) \div b)

\* days = Math.ceil((end - start) / MsPerDay); totalPrice = room.price * days
BookingPrice(price, startDate, endDate) ==
    price * CeilDiv(DateMs(endDate) - DateMs(startDate), MsPerDay)

\* The row POST /api/bookings inserts.
BookingRow(q) ==
    [user_id |-> q.user, room_id |-> q.roomId,
     start_date |-> q.startDate, end_date |-> q.endDate,
     price |-> BookingPrice(q.roomPrice, q.startDate, q.endDate),
     status |-> "active",
     payment_session_id |-> "none", payment_status |-> "none"]

\* Faulty variant of BookRoomStep: the answer of the lookup is not tested.
BookRoomStep_NoCheck(q, o) ==
    LET q1 == Called(q, o, "room") IN
    IF o = "throw" THEN Respond(q1, 500)
    ELSE [q1 EXCEPT !.roomPrice = RoomPrice(q.roomId), !.pc = "book_insert"]

\* rooms lookup (select price) with .single(): any error, or no row, is 404.
BookRoomStep(q, o) ==
    LET q1 == Called(q, o, "room") IN
    IF o = "throw" THEN Respond(q1, 500)
    ELSE IF o = "error" \/ ~RoomExists(q.roomId) THEN Respond(q1, 404)
    ELSE [q1 EXCEPT !.roomPrice = RoomPrice(q.roomId), !.pc = "book_insert"]

\* 201 after the user_stats update, 500 from the catch block when it
\* returned an error or threw.
BookStatsStatus(o) == IF o = "ok" THEN 201 ELSE 500

BookArrive(r, u, room, dates) ==
    /\ req[r].pc = "idle"
    /\ req' = [req EXCEPT ![r] =
                 [IdleReq EXCEPT !.kind = "bookPost", !.pc = "book_room",
                                 !.module = "bookings", !.next = TRUE,
                                 !.user = u, !.roomId = room,
                                 !.startDate = dates[1], !.endDate = dates[2]]]
    /\ UNCHANGED <<favorites, bookings, user_stats, user_settings, users, user_stats_rows, collections, collection_rooms>>

BookRoomLookup(r) ==
    /\ req[r].kind = "bookPost" /\ req[r].pc = "book_room"
    /\ \E o \in Outcomes : req' = [req EXCEPT ![r] = BookRoomStep(req[r], o)]
    /\ UNCHANGED <<favorites, bookings, user_stats, user_settings, users, user_stats_rows, collections, collection_rooms>>

BookInsert(r) ==
    /\ req[r].kind = "bookPost" /\ req[r].pc = "book_insert"
    /\ \E o \in Outcomes :
          LET q1 == Called(req[r], o, "insert") IN
          IF o = "ok"
          THEN /\ bookings' = Append(bookings, BookingRow(req[r]))
               /\ req' = [req EXCEPT ![r] =
                            [q1 EXCEPT !.inserted = @ + 1,
                                       !.rowId = Len(bookings) + 1,
                                       !.pc = "book_stats"]]
          ELSE /\ bookings' = bookings
               /\ req' = [req EXCEPT ![r] = Respond(q1, 500)]
    /\ UNCHANGED <<favorites, user_stats, user_settings, users, user_stats_rows, collections, collection_rooms>>

BookStats(r) ==
    /\ req[r].kind = "bookPost" /\ req[r].pc = "book_stats"
    /\ \E o \in Outcomes :
          LET q1 == Called(req[r], o, "stats") IN
          /\ user_stats' = IF o = "ok" THEN IncBookings(user_stats, req[r].user)
                           ELSE user_stats
          /\ req' = [req EXCEPT ![r] =
                       Respond([q1 EXCEPT !.statDelta = @ + (IF o = "ok" THEN 1 ELSE 0)],
                               BookStatsStatus(o))]
    /\ UNCHANGED <<favorites, bookings, user_settings, users, user_stats_rows, collections, collection_rooms>>

\* One POST /api/bookings request, over every input.
NextBook ==
    \/ \E u \in Users, room \in RoomIds, dates \in DatePairs : BookArrive(1, u, room, dates)
    \/ BookRoomLookup(1)
    \/ BookInsert(1)
    \/ BookStats(1)

SpecBook == Init /\ [][NextBook]_vars

\* =========================================================================
\* Booking cancellation (PUT /api/bookings/:id/cancel) and the bookings table
\* under every operation that writes it
\* =========================================================================

\* Booking ids a cancel request may name: the rows the table can hold and
\* one id no row has.
BookingIds == 1..(MaxRows + 1)

\* select('id, status').eq('id', id).eq('user_id', req.user.id).single()
OwnBooking(rows, id, u) == id \in 1..Len(rows) /\ rows[id].user_id = u

\* Faulty variant of CancelCheckStep: the lookup is not filtered by user_id.
CancelCheckStep_AnyUser(q, o, rows) ==
    LET q1 == Called(q, o, "check") IN
    IF o = "throw" THEN Respond(q1, 500)
    ELSE IF o = "error" \/ q.bookingId \notin 1..Len(rows) THEN Respond(q1, 404)
    ELSE IF rows[q.bookingId].status # "active" THEN Respond(q1, 400)
    ELSE [q1 EXCEPT !.pc = "cancel_update"]

\* The ownership check of the cancel handler: an error or no row is 404, a
\* booking that is not active is 400.
CancelCheckStep(q, o, rows) ==
    LET q1 == Called(q, o, "check") IN
    IF o = "throw" THEN Respond(q1, 500)
    ELSE IF o = "error" \/ ~OwnBooking(rows, q.bookingId, q.user) THEN Respond(q1, 404)
    ELSE IF rows[q.bookingId].status # "active" THEN Respond(q1, 400)
    ELSE [q1 EXCEPT !.pc = "cancel_update"]

\* update({ status: 'cancelled' }).eq('id', id)
CancelRow(rows, id) ==
    [i \in 1..Len(rows) |-> IF i = id THEN [rows[i] EXCEPT !.status = "cancelled"]
                                      ELSE rows[i]]

CancelArrive(r, u, id) ==
    /\ req[r].pc = "idle"
    /\ req' = [req EXCEPT ![r] =
                 [IdleReq EXCEPT !.kind = "bookCancel", !.pc = "cancel_check",
                                 !.module = "bookings", !.next = TRUE,
                                 !.user = u, !.bookingId = id]]
    /\ UNCHANGED <<favorites, bookings, user_stats, user_settings, users, user_stats_rows, collections, collection_rooms>>

CancelCheck(r) ==
    /\ req[r].kind = "bookCancel" /\ req[r].pc = "cancel_check"
    /\ \E o \in Outcomes : req' = [req EXCEPT ![r] = CancelCheckStep(req[r], o, bookings)]
    /\ UNCHANGED <<favorites, bookings, user_stats, user_settings, users, user_stats_rows, collections, collection_rooms>>

CancelUpdate(r) ==
    /\ req[r].kind = "bookCancel" /\ req[r].pc = "cancel_update"
    /\ \E o \in Outcomes :
          LET q1 == Called(req[r], o, "update") IN
          /\ bookings' = IF o = "ok" THEN CancelRow(bookings, req[r].bookingId)
                         ELSE bookings
          /\ req' = [req EXCEPT ![r] = Respond(q1, IF o = "ok" THEN 200 ELSE 500)]
    /\ UNCHANGED <<favorites, user_stats, user_settings, users, user_stats_rows, collections, collection_rooms>>

\* A bookings table with rows of both users, all active as the creating
\* handlers insert them.
InitCancel ==
    /\ req = [r \in Slots |-> IdleReq]
    /\ favorites = [p \in Users \X RoomIds |-> 0]
    /\ bookings = [i \in 1..MaxRows |->
                     [user_id |-> IF i % 2 = 1 THEN "u1" ELSE "u2", room_id |-> "r1",
                      start_date |-> "2024-04-10", end_date |-> "2024-04-12",
                      price |-> 200, status |-> "active",
                      payment_session_id |-> "none", payment_status |-> "none"]]
    /\ user_stats = [u \in Users |-> [bookings |-> 1, favorites |-> 0]]
    /\ user_settings = << >>
    /\ users = [u \in Users |-> 1]
    /\ user_stats_rows = [u \in Users |-> 1]
    /\ collections = InitCollections
    /\ collection_rooms = InitCollectionRooms

\* Cancel requests of both users for existing and missing ids, interleaved
\* at their awaits.
NextCancel ==
    \/ \E r \in Slots, u \in Users, id \in BookingIds : CancelArrive(r, u, id)
    \/ \E r \in Slots : CancelCheck(r) \/ CancelUpdate(r) \/ Recycle(r)

SpecCancel == InitCancel /\ [][NextCancel]_vars

\* A POST /api/bookings that arrives while the table has room for its row.
BookArriveCap(r, u, room, dates) ==
    /\ Len(bookings) < MaxRows
    /\ BookArrive(r, u, room, dates)

\* The amount_total of the sessions the webhook is told about: the session
\* is created with the amount the client sent (create-checkout-session), a
\* positive number that is not compared with any room's price.
SessionAmounts == {20000, 15000}

\* Every operation on the bookings table, one request at a time: creations,
\* webhook deliveries (a second delivery of session cs_1 is a retry) and
\* cancellations.
NextLedger ==
    \/ \E dates \in {<<"2024-04-10", "2024-04-12">>, <<"2024-04-10", "2024-04-10T12:00:00Z">>} :
          BookArriveCap(1, "u1", "r1", dates)
    \/ BookRoomLookup(1)
    \/ BookInsert(1)
    \/ BookStats(1)
    \/ \E amt \in SessionAmounts :
          WebhookArrive(1, TRUE, "checkout.session.completed", "u1@example.com",
                        "r1", "cs_1", amt)
    \/ WebhookVerify(1)
    \/ WebhookUserLookup(1)
    \/ WebhookRoomLookup(1)
    \/ WebhookInsert(1)
    \/ WebhookStats(1)
    \/ \E u \in Users, id \in BookingIds : CancelArrive(1, u, id)
    \/ CancelCheck(1)
    \/ CancelUpdate(1)
    \/ Recycle(1)

SpecLedger == Init /\ [][NextLedger]_vars

\* =========================================================================
\* Concurrent creations (POST /api/bookings and POST /api/favorites together)
\* =========================================================================

\* A POST /api/bookings that arrives while earlier requests may be in flight
\* (slots are taken in order).
BookArriveConc(r, u, room, dates) ==
    /\ \A s \in Slots : s < r => req[s].pc # "idle"
    /\ BookArrive(r, u, room, dates)

BookSteps ==
    \E r \in Slots :
        \/ BookRoomLookup(r)
        \/ BookInsert(r)
        \/ BookStats(r)

\* Requests of the two creation endpoints, their awaits interleaved in
\* every order.
NextConc ==
    \/ \E r \in Slots, u \in Users :
          BookArriveConc(r, u, "r1", <<"2024-04-10", "2024-04-12">>)
    \/ \E r \in Slots, u \in Users, room \in {"r1", "r2"} : FavArrive(r, u, room)
    \/ BookSteps
    \/ FavSteps

SpecConc == Init /\ [][NextConc]_vars

\* =========================================================================
\* Settings (GET /api/settings, PUT /api/settings and their /user/:userId
\* forms)
\* =========================================================================

Null == "null"

\* new Date().toISOString() at the requests' times.
Times == {"T1", "T2"}

DefaultNotifications ==
    [email |-> TRUE, push |-> TRUE, sms |-> FALSE, marketing |-> FALSE]

DefaultPrivacy ==
    [profileVisibility |-> "public", activityVisibility |-> "private"]

DefaultSecurity(now) == [twoFactorAuth |-> FALSE, lastPasswordChange |-> now]

DefaultPreferences ==
    [currency |-> "MXN", darkMode |-> FALSE, language |-> "es",
     timezone |-> "America/Mexico_City"]

getDefaultSettings(userId, now) ==
    [id |-> Null, user_id |-> userId,
     notifications |-> DefaultNotifications,
     privacy |-> DefaultPrivacy,
     security |-> DefaultSecurity(now),
     preferences |-> DefaultPreferences,
     created_at |-> now, updated_at |-> now]

\* v || d for a value that is an object, null or undefined.
OrObj(v, d) == IF v = Nil THEN d ELSE v

\* v || d for a value that is a string, null or undefined.
OrStr(v, d) == IF v \in {Null, Undefined, ""} THEN d ELSE v

\* formatSettings: a stored sub-object is taken whole when it is there and
\* replaced whole by the default when it is not; the preferences are
\* rebuilt from the scalar columns.
formatSettings(settings) ==
    [id |-> settings.id, user_id |-> settings.user_id,
     notifications |-> OrObj(settings.notifications, DefaultNotifications),
     privacy |-> OrObj(settings.privacy, DefaultPrivacy),
     security |-> OrObj(settings.security,
                        [twoFactorAuth |-> FALSE,
                         lastPasswordChange |-> settings.created_at]),
     preferences |-> [currency |-> OrStr(settings.currency, "MXN"),
                      darkMode |-> (settings.theme = "dark"),
                      language |-> OrStr(settings.language, "es"),
                      timezone |-> OrStr(settings.timezone, "America/Mexico_City")],
     created_at |-> settings.created_at, updated_at |-> settings.updated_at]

\* A column the request did not send holds null (the table's definition is
\* not part of the repository).
ColStr(v) == IF v = Undefined THEN Null ELSE v

\* The row the backend stores for the payload of createOrUpdateSettings
\* (called without settings: the defaults): it assigns the id and, the
\* payload naming no created_at, the creation time.
UpsertedRow(userId, now, id) ==
    LET d == getDefaultSettings(userId, now) IN
    [id |-> id, user_id |-> userId,
     notifications |-> d.notifications, privacy |-> d.privacy,
     security |-> d.security,
     currency |-> d.preferences.currency,
     theme |-> IF d.preferences.darkMode THEN "dark" ELSE "light",
     language |-> d.preferences.language,
     timezone |-> d.preferences.timezone,
     created_at |-> now, updated_at |-> now]

\* preferences?.field
PrefField(body, f) ==
    IF body.preferences # Nil /\ f \in DOMAIN body.preferences
    THEN body.preferences[f] ELSE Undefined

\* preferences?.darkMode ? 'dark' : 'light'
ThemeOf(body) ==
    IF body.preferences # Nil /\ "darkMode" \in DOMAIN body.preferences
       /\ body.preferences["darkMode"] = TRUE
    THEN "dark" ELSE "light"

\* settingsToUpdate of the PUT handlers; a sub-object the body omits is
\* undefined (Nil), a preference it omits is undefined.
settingsToUpdate(body, now) ==
    [notifications |-> body.notifications,
     privacy |-> body.privacy,
     security |-> body.security,
     currency |-> PrefField(body, "currency"),
     theme |-> ThemeOf(body),
     language |-> PrefField(body, "language"),
     timezone |-> PrefField(body, "timezone"),
     updated_at |-> now]

\* update(settingsToUpdate) on one row: a key whose value is undefined is
\* not sent and its column keeps its value.
UpdatedRow(row, upd) ==
    [row EXCEPT
       !.notifications = IF upd.notifications = Nil THEN @ ELSE upd.notifications,
       !.privacy = IF upd.privacy = Nil THEN @ ELSE upd.privacy,
       !.security = IF upd.security = Nil THEN @ ELSE upd.security,
       !.currency = IF upd.currency = Undefined THEN @ ELSE upd.currency,
       !.theme = upd.theme,
       !.language = IF upd.language = Undefined THEN @ ELSE upd.language,
       !.timezone = IF upd.timezone = Undefined THEN @ ELSE upd.timezone,
       !.updated_at = upd.updated_at]

\* { ...defaultSettings, ...settingsToUpdate, user_id }: every key of
\* settingsToUpdate, its undefined ones too, replaces the default of the
\* same name; the defaults carry no currency, language or timezone key of
\* their own (they are inside preferences).
settingsToInsert(userId, body, now) ==
    LET d == getDefaultSettings(userId, now)
        u == settingsToUpdate(body, now) IN
    [id |-> d.id, user_id |-> userId,
     notifications |-> u.notifications, privacy |-> u.privacy,
     security |-> u.security,
     preferences |-> d.preferences,
     currency |-> u.currency, theme |-> u.theme,
     language |-> u.language, timezone |-> u.timezone,
     created_at |-> d.created_at, updated_at |-> u.updated_at]

\* The row the backend stores for insert(settingsToInsert): it assigns the
\* id; an undefined key is not sent and its column holds null.
InsertedRow(payload, id) ==
    [id |-> id, user_id |-> payload.user_id,
     notifications |-> payload.notifications,
     privacy |-> payload.privacy,
     security |-> payload.security,
     currency |-> ColStr(payload.currency), theme |-> payload.theme,
     language |-> ColStr(payload.language),
     timezone |-> ColStr(payload.timezone),
     created_at |-> payload.created_at, updated_at |-> payload.updated_at]

\* The id the backend gives to the next row of a table.
NewId(rows) == ToString(Len(rows) + 1)

\* The indexes of the stored rows of a user.
SettingsRowsOf(rows, u) == {i \in 1..Len(rows) : rows[i].user_id = u}

\* Answers of the query that probes the table: 42P01 is the error code of
\* a table that does not exist.
TableCheckOutcomes == Outcomes \cup {"42P01"}

\* The request bodies of PUT: an empty body, one sub-object with one of its
\* fields, some preferences, and a body naming everything.
Bodies ==
    {[notifications |-> Nil, privacy |-> Nil, security |-> Nil, preferences |-> Nil],
     [notifications |-> [email |-> FALSE], privacy |-> Nil, security |-> Nil,
      preferences |-> Nil],
     [notifications |-> Nil, privacy |-> Nil, security |-> Nil,
      preferences |-> [darkMode |-> TRUE, currency |-> "USD"]],
     [notifications |-> [email |-> FALSE, push |-> FALSE, sms |-> TRUE,
                         marketing |-> TRUE],
      privacy |-> [profileVisibility |-> "private", activityVisibility |-> "private"],
      security |-> [twoFactorAuth |-> TRUE, lastPasswordChange |-> "T1"],
      preferences |-> [currency |-> "USD", darkMode |-> TRUE, language |-> "en",
                       timezone |-> "UTC"]]}

\* The table check of the GET handlers.
SettingsTableStep(q, o) ==
    LET q1 == Called(q, o, "table") IN
    IF o = "42P01"
    THEN Respond([q1 EXCEPT !.returned = getDefaultSettings(q.target, q.now)], 200)
    ELSE IF o # "ok" THEN Respond(q1, 500)
    ELSE [q1 EXCEPT !.pc = "set_select"]

\* Faulty variant of SettingsSelectStep: the row found is not looked at.
SettingsSelectStep_AlwaysUpsert(q, o, rows, i) ==
    LET q1 == Called(q, o, "select") IN
    IF o # "ok" THEN Respond(q1, 500) ELSE [q1 EXCEPT !.pc = "set_upsert"]

\* select('*').eq('user_id', id).limit(1) answered with the row at index i
\* (0: no row).
SettingsSelectStep(q, o, rows, i) ==
    LET q1 == Called(q, o, "select") IN
    IF o # "ok" THEN Respond(q1, 500)
    ELSE IF i = 0 THEN [q1 EXCEPT !.pc = "set_upsert"]
    ELSE Respond([q1 EXCEPT !.returned = formatSettings(rows[i]), !.rowId = i], 200)

\* A GET or PUT for the settings of target arrives from caller u, who is
\* target or has passed isAdmin, after every earlier request was answered.
SettingsArrive(r, kind, u, target, now, body) ==
    /\ req[r].pc = "idle"
    /\ \A s \in Slots : s < r => req[s].pc = "done"
    /\ req' = [req EXCEPT ![r] =
                 [IdleReq EXCEPT !.kind = kind,
                                 !.pc = IF kind = "setGet" THEN "set_table" ELSE "set_update",
                                 !.module = "settings", !.next = TRUE,
                                 !.user = u, !.target = target, !.now = now,
                                 !.body = body,
                                 !.rowsAtStart =
                                     Cardinality(SettingsRowsOf(user_settings, target))]]
    /\ UNCHANGED <<favorites, bookings, user_stats, user_settings, users, user_stats_rows, collections, collection_rooms>>

SettingsTableCheck(r) ==
    /\ req[r].kind = "setGet" /\ req[r].pc = "set_table"
    /\ \E o \in TableCheckOutcomes :
          req' = [req EXCEPT ![r] = SettingsTableStep(req[r], o)]
    /\ UNCHANGED <<favorites, bookings, user_stats, user_settings, users, user_stats_rows, collections, collection_rooms>>

SettingsSelect(r) ==
    /\ req[r].kind = "setGet" /\ req[r].pc = "set_select"
    /\ LET mine == SettingsRowsOf(user_settings, req[r].target) IN
       \E o \in Outcomes, i \in (IF mine = {} THEN {0} ELSE mine) :
          req' = [req EXCEPT ![r] = SettingsSelectStep(req[r], o, user_settings, i)]
    /\ UNCHANGED <<favorites, bookings, user_stats, user_settings, users, user_stats_rows, collections, collection_rooms>>

\* createOrUpdateSettings(userId) and the response built from its row.
SettingsUpsert(r) ==
    /\ req[r].kind = "setGet" /\ req[r].pc = "set_upsert"
    /\ \E o \in Outcomes :
          LET q1 == Called(req[r], o, "upsert")
              row == UpsertedRow(req[r].target, req[r].now, NewId(user_settings)) IN
          IF o = "ok"
          THEN /\ user_settings' = Append(user_settings, row)
               /\ req' = [req EXCEPT ![r] =
                            Respond([q1 EXCEPT !.inserted = @ + 1,
                                               !.rowId = Len(user_settings) + 1,
                                               !.returned = formatSettings(row)], 200)]
          ELSE /\ user_settings' = user_settings
               /\ req' = [req EXCEPT ![r] = Respond(q1, 500)]
    /\ UNCHANGED <<favorites, bookings, user_stats, users, user_stats_rows, collections, collection_rooms>>

\* update(settingsToUpdate).eq('user_id', id).select().limit(1): every row
\* of the user is updated; an error, or no row updated, leads to the insert.
SettingsUpdate(r) ==
    /\ req[r].kind = "setPut" /\ req[r].pc = "set_update"
    /\ LET q == req[r]
           mine == SettingsRowsOf(user_settings, q.target)
           upd == settingsToUpdate(q.body, q.now) IN
       \E o \in Outcomes, i \in (IF mine = {} THEN {0} ELSE mine) :
          LET q1 == Called(q, o, "update") IN
          IF o = "throw"
          THEN /\ user_settings' = user_settings
               /\ req' = [req EXCEPT ![r] = Respond(q1, 500)]
          ELSE IF o = "error" \/ i = 0
          THEN /\ user_settings' = user_settings
               /\ req' = [req EXCEPT ![r] = [q1 EXCEPT !.pc = "set_insert"]]
          ELSE /\ user_settings' =
                     [j \in 1..Len(user_settings) |->
                         IF j \in mine THEN UpdatedRow(user_settings[j], upd)
                         ELSE user_settings[j]]
               /\ req' = [req EXCEPT ![r] =
                            Respond([q1 EXCEPT !.rowId = i,
                                               !.returned =
                                                   formatSettings(UpdatedRow(user_settings[i], upd))],
                                    200)]
    /\ UNCHANGED <<favorites, bookings, user_stats, users, user_stats_rows, collections, collection_rooms>>

\* The fallback insert of the PUT handlers.
SettingsInsert(r) ==
    /\ req[r].kind = "setPut" /\ req[r].pc = "set_insert"
    /\ \E o \in Outcomes :
          LET q1 == Called(req[r], o, "insert")
              row == InsertedRow(settingsToInsert(req[r].target, req[r].body, req[r].now),
                                 NewId(user_settings)) IN
          IF o = "ok"
          THEN /\ user_settings' = Append(user_settings, row)
               /\ req' = [req EXCEPT ![r] =
                            Respond([q1 EXCEPT !.inserted = @ + 1,
                                               !.rowId = Len(user_settings) + 1,
                                               !.returned = formatSettings(row)], 200)]
          ELSE /\ user_settings' = user_settings
               /\ req' = [req EXCEPT ![r] = Respond(q1, 500)]
    /\ UNCHANGED <<favorites, bookings, user_stats, users, user_stats_rows, collections, collection_rooms>>

\* Settings requests in sequence.
NextSettings ==
    \/ \E r \in Slots, target \in Users, now \in Times :
          SettingsArrive(r, "setGet", "u1", target, now, Nil)
    \/ \E r \in Slots, target \in Users, body \in Bodies :
          SettingsArrive(r, "setPut", "u1", target, "T2", body)
    \/ \E r \in Slots :
          \/ SettingsTableCheck(r)
          \/ SettingsSelect(r)
          \/ SettingsUpsert(r)
          \/ SettingsUpdate(r)
          \/ SettingsInsert(r)

SpecSettings == Init /\ [][NextSettings]_vars

\* The role of a user_roles row, or "none" for a caller without a row.
Roles == {"admin", "user", "none"}

\* After next(): the first await of the GET or PUT handler.
SettingsEntry(kind) == IF kind = "setGet" THEN "set_table" ELSE "set_update"

\* isAdmin, its synchronous start: a caller asking for their own settings
\* passes without a query.
IsAdminOwnStep(q) ==
    IF q.target = q.user THEN [q EXCEPT !.pc = SettingsEntry(q.kind)]
    ELSE [q EXCEPT !.pc = "admin_table"]

\* isAdmin, the probe of the user_roles table: a missing table (42P01)
\* lets the caller pass, another error is thrown to the catch (500).
IsAdminTableStep(q, o) ==
    IF o = "ok" THEN [q EXCEPT !.pc = "admin_role"]
    ELSE IF o = "42P01"
    THEN [q EXCEPT !.failedAt = "user_roles", !.failedHow = o,
                   !.pc = SettingsEntry(q.kind)]
    ELSE Respond([q EXCEPT !.failedAt = "user_roles", !.failedHow = o], 500)

\* isAdmin, the lookup of the caller's role with .single(): no row is
\* PGRST116 and lets the caller pass, another error is thrown (500); with a
\* row the caller passes when the role is 'admin' and gets 403 otherwise.
IsAdminRoleStep(q, o) ==
    IF o # "ok" THEN Respond([q EXCEPT !.failedAt = "role", !.failedHow = o], 500)
    ELSE IF q.role = "none" THEN [q EXCEPT !.pc = SettingsEntry(q.kind)]
    ELSE IF q.role = "admin" THEN [q EXCEPT !.pc = SettingsEntry(q.kind)]
    ELSE Respond(q, 403)

\* GET or PUT /api/settings/user/:userId from caller u, whose user_roles
\* row carries role, after every earlier request was answered.
AdminArrive(r, kind, u, role, target, now, body) ==
    /\ req[r].pc = "idle"
    /\ \A s \in Slots : s < r => req[s].pc = "done"
    /\ req' = [req EXCEPT ![r] =
                 [IdleReq EXCEPT !.kind = kind, !.pc = "admin_own",
                                 !.module = "settings", !.next = TRUE,
                                 !.endpoint = "settings/user",
                                 !.user = u, !.role = role,
                                 !.target = target, !.now = now, !.body = body,
                                 !.rowsAtStart =
                                     Cardinality(SettingsRowsOf(user_settings, target))]]
    /\ UNCHANGED <<favorites, bookings, user_stats, user_settings, users, user_stats_rows, collections, collection_rooms>>

IsAdminOwn(r) ==
    /\ req[r].pc = "admin_own"
    /\ req' = [req EXCEPT ![r] = IsAdminOwnStep(req[r])]
    /\ UNCHANGED <<favorites, bookings, user_stats, user_settings, users, user_stats_rows, collections, collection_rooms>>

IsAdminTable(r) ==
    /\ req[r].pc = "admin_table"
    /\ \E o \in TableCheckOutcomes :
          \* without the table there is no row
          /\ o = "42P01" => req[r].role = "none"
          /\ req' = [req EXCEPT ![r] = IsAdminTableStep(req[r], o)]
    /\ UNCHANGED <<favorites, bookings, user_stats, user_settings, users, user_stats_rows, collections, collection_rooms>>

IsAdminRole(r) ==
    /\ req[r].pc = "admin_role"
    /\ \E o \in Outcomes : req' = [req EXCEPT ![r] = IsAdminRoleStep(req[r], o)]
    /\ UNCHANGED <<favorites, bookings, user_stats, user_settings, users, user_stats_rows, collections, collection_rooms>>

\* Requests of u1 for their own settings and for those of u2, with each
\* role u1 may hold.
NextAdmin ==
    \/ \E r \in Slots, role \in Roles, target \in Users :
          \/ AdminArrive(r, "setGet", "u1", role, target, "T1", Nil)
          \/ \E body \in {b \in Bodies : b.notifications # Nil /\ b.preferences = Nil} :
                AdminArrive(r, "setPut", "u1", role, target, "T2", body)
    \/ \E r \in Slots :
          \/ IsAdminOwn(r)
          \/ IsAdminTable(r)
          \/ IsAdminRole(r)
          \/ SettingsTableCheck(r)
          \/ SettingsSelect(r)
          \/ SettingsUpsert(r)
          \/ SettingsUpdate(r)
          \/ SettingsInsert(r)

SpecAdmin == Init /\ [][NextAdmin]_vars

\* =========================================================================
\* List endpoints (GET /api/rooms, GET /api/bookings, GET /api/favorites)
\* =========================================================================

\* JavaScript values of the query parameters: a number (the default of the
\* destructuring) or a string (a parameter of the query string), here the
\* decimal numeral of v.
Num(n) == [t |-> "number", v |-> n]
Str(n) == [t |-> "string", v |-> n]

\* ToNumber: null is 0, a decimal numeral is its value.
ToNumber(x) == IF x = Nil THEN 0 ELSE x.v

\* The number of characters of the decimal numeral of n >= 0.
RECURSIVE DecLen(_)
DecLen(n) == IF n < 10 THEN 1 ELSE 1 + DecLen(n \div 10)

RECURSIVE Pow10(_)
Pow10(k) == IF k = 0 THEN 1 ELSE 10 * Pow10(k - 1)

\* n + x for a number n >= 0: an addition when x is a number, the
\* concatenation of the two numerals when x is a string.
JsAdd(n, x) ==
    IF x.t = "string" THEN Str(n * Pow10(DecLen(x.v)) + x.v) ELSE Num(n + x.v)

\* const { page = 1, limit = 10 } = req.query
PageOf(p) == IF p = Nil THEN Num(1) ELSE p
LimitOf(l) == IF l = Nil THEN Num(10) ELSE l

\* from = (page - 1) * limit
RangeFrom(page, limit) == (ToNumber(page) - 1) * ToNumber(limit)

\* to = from + limit - 1
RangeTo(page, limit) == ToNumber(JsAdd(RangeFrom(page, limit), limit)) - 1

\* The default of the sort parameter, as the parts of sort.split(':');
\* GET /api/bookings takes no sort and orders nothing.
DefaultSort(endpoint) ==
    CASE endpoint = "rooms" -> <<"created_at">>
      [] endpoint = "favorites" -> <<"created_at", "desc">>
      [] OTHER -> << >>

\* const [column, order] = sort.split(':')
SortOrder(parts) == IF Len(parts) >= 2 THEN parts[2] ELSE Undefined

\* { ascending: order === 'asc' }
Ascending(parts) == SortOrder(parts) = "asc"

\* None of the list queries asks the backend for a count (select is called
\* without the count option).
AsksCount(endpoint) == FALSE

\* The count of the backend's answer: null unless the query asked for it.
BackendCount(endpoint, n) == IF AsksCount(endpoint) THEN Num(n) ELSE Nil

\* The n matching rows in the order asked for; a row is named by its rank
\* in the sort column.
Ordered(n, asc) == [i \in 1..n |-> IF asc THEN i ELSE n + 1 - i]

\* range(from, to): the rows at the zero-based positions from..to.
RangeOf(rows, from, to) ==
    LET last == IF to + 1 < Len(rows) THEN to + 1 ELSE Len(rows) IN
    IF from + 1 > last THEN << >> ELSE SubSeq(rows, from + 1, last)

\* currentPage: page itself for rooms, parseInt(page) for the others.
CurrentPage(endpoint, page) ==
    IF endpoint = "rooms" THEN page ELSE Num(ToNumber(page))

\* The pagination envelope computed from the backend's count.
Pagination(endpoint, page, limit, count) ==
    LET totalPages == CeilDiv(ToNumber(count), ToNumber(limit)) IN
    [total |-> count,
     currentPage |-> CurrentPage(endpoint, page),
     totalPages |-> totalPages,
     hasMore |-> ToNumber(page) < totalPages]

\* Query parameters of the requests.
PageParams == {Nil, Str(1), Str(2), Str(3)}
LimitParams == {Nil, Str(2), Str(10)}
SortParams == {<< >>, <<"created_at">>, <<"created_at", "asc">>,
               <<"created_at", "desc">>, <<"price", "ASC">>}
Matchings == {0, 3, 12}

\* The synchronous part of a list handler: it builds the query (range and,
\* where the endpoint sorts, direction) and awaits it.  n is the number of
\* rows matching the request's filters.
ListArrive(r, endpoint, p, l, srt, n) ==
    /\ req[r].pc = "idle"
    /\ endpoint = "bookings" => srt = << >>
    /\ LET page == PageOf(p)
           limit == LimitOf(l)
           parts == IF srt = << >> THEN DefaultSort(endpoint) ELSE srt IN
       req' = [req EXCEPT ![r] =
                 [IdleReq EXCEPT !.kind = "list", !.pc = "list_query",
                                 !.module = endpoint, !.next = TRUE, !.user = "u1",
                                 !.endpoint = endpoint,
                                 !.page = page, !.limit = limit, !.sort = parts,
                                 !.matching = n,
                                 !.rangeFrom = RangeFrom(page, limit),
                                 !.rangeTo = RangeTo(page, limit),
                                 !.ascending = IF endpoint = "bookings" THEN TRUE
                                               ELSE Ascending(parts)]]
    /\ UNCHANGED <<favorites, bookings, user_stats, user_settings, users, user_stats_rows, collections, collection_rooms>>

\* The answer of the query and the response.
ListQuery(r) ==
    /\ req[r].kind = "list" /\ req[r].pc = "list_query"
    /\ \E o \in Outcomes :
          LET q == req[r]
              q1 == Called(q, o, "list") IN
          req' = [req EXCEPT ![r] =
                    IF o # "ok" THEN Respond(q1, 500)
                    ELSE Respond([q1 EXCEPT
                                    !.data = RangeOf(Ordered(q.matching, q.ascending),
                                                     q.rangeFrom, q.rangeTo),
                                    !.pagination =
                                        Pagination(q.endpoint, q.page, q.limit,
                                                   BackendCount(q.endpoint, q.matching))],
                                 200)]
    /\ UNCHANGED <<favorites, bookings, user_stats, user_settings, users, user_stats_rows, collections, collection_rooms>>

NextList ==
    \/ \E endpoint \in {"rooms", "bookings", "favorites"}, p \in PageParams,
          l \in LimitParams, srt \in SortParams, n \in Matchings :
          ListArrive(1, endpoint, p, l, srt, n)
    \/ ListQuery(1)

SpecList == Init /\ [][NextList]_vars

\* =========================================================================
\* Checkout sessions (POST /api/payments/create-checkout-session)
\* =========================================================================

\* The values the JSON body can give to amount.  Numbers are kept in
\* thousandths (milli), so that 150.5 and 0.004 are integers here.
AmountNumber(milli) == [t |-> "number", milli |-> milli]
AmountString(str) == [t |-> "string", s |-> str]
AmountBoolean(b) == [t |-> "boolean", b |-> b]
AmountArray(elems) == [t |-> "array", elems |-> elems]

Amounts ==
    {[t |-> "undefined"], [t |-> "null"],
     AmountNumber(0), AmountNumber(-5000), AmountNumber(150000),
     AmountNumber(150500), AmountNumber(4),
     AmountString("150"), AmountString("abc"), AmountString(""), AmountString(" "),
     AmountString("-5"),
     AmountBoolean(TRUE), AmountBoolean(FALSE),
     AmountArray(<<5000>>), AmountArray(<< >>)}

\* A JavaScript number: NaN, or a value in thousandths.
NaN == [nan |-> TRUE, milli |-> 0]
Finite(milli) == [nan |-> FALSE, milli |-> milli]

\* Number(s) for the strings of the requests: a numeral is its value, an
\* empty or blank string is 0, anything else is NaN.
StringToNumber(str) ==
    CASE str = "150" -> Finite(150000)
      [] str = "-5" -> Finite(-5000)
      [] str = "" -> Finite(0)
      [] str = " " -> Finite(0)
      [] OTHER -> NaN

\* ToNumber of a value: undefined is NaN, null is 0, true is 1, false is
\* 0, an array goes through its string (the empty string, or the numeral
\* of its only element).
AmountToNumber(x) ==
    CASE x.t = "undefined" -> NaN
      [] x.t = "null" -> Finite(0)
      [] x.t = "number" -> Finite(x.milli)
      [] x.t = "string" -> StringToNumber(x.s)
      [] x.t = "boolean" -> Finite(IF x.b THEN 1000 ELSE 0)
      [] x.t = "array" -> IF Len(x.elems) = 0 THEN Finite(0)
                          ELSE IF Len(x.elems) = 1 THEN Finite(x.elems[1])
                          ELSE NaN

\* !amount
AmountFalsy(x) ==
    CASE x.t \in {"undefined", "null"} -> TRUE
      [] x.t = "number" -> x.milli = 0
      [] x.t = "string" -> x.s = ""
      [] x.t = "boolean" -> ~x.b
      [] x.t = "array" -> FALSE

\* !amount || isNaN(amount) || amount <= 0
AmountRejected(x) ==
    \/ AmountFalsy(x)
    \/ AmountToNumber(x).nan
    \/ (~AmountToNumber(x).nan /\ AmountToNumber(x).milli <= 0)

\* Math.round(amount * 100) for an accepted amount: halves round up.
UnitAmount(x) == (AmountToNumber(x).milli + 5) \div 10

\* The validation of the amount; an accepted amount leads to the call of
\* stripe.checkout.sessions.create.
CheckoutValidateStep(q) ==
    IF AmountRejected(q.amount) THEN Respond(q, 400)
    ELSE [q EXCEPT !.unitAmount = UnitAmount(q.amount), !.pc = "co_create"]

\* The call of the payment processor: the session's url is returned, or
\* the call throws and the catch answers 500.
CheckoutCreateStep(q, o) ==
    Respond([q EXCEPT !.stripeCalls = @ + 1,
                      !.failedAt = IF o = "ok" THEN @ ELSE "stripe",
                      !.failedHow = IF o = "ok" THEN @ ELSE o],
            IF o = "ok" THEN 200 ELSE 500)

CheckoutArrive(r, amt) ==
    /\ req[r].pc = "idle"
    /\ req' = [req EXCEPT ![r] =
                 [IdleReq EXCEPT !.kind = "checkout", !.pc = "co_validate",
                                 !.module = "payments", !.amount = amt,
                                 !.roomId = "r1", !.startDate = "2024-04-10",
                                 !.endDate = "2024-04-12"]]
    /\ UNCHANGED <<favorites, bookings, user_stats, user_settings, users, user_stats_rows, collections, collection_rooms>>

CheckoutValidate(r) ==
    /\ req[r].kind = "checkout" /\ req[r].pc = "co_validate"
    /\ req' = [req EXCEPT ![r] = CheckoutValidateStep(req[r])]
    /\ UNCHANGED <<favorites, bookings, user_stats, user_settings, users, user_stats_rows, collections, collection_rooms>>

CheckoutCreate(r) ==
    /\ req[r].kind = "checkout" /\ req[r].pc = "co_create"
    /\ \E o \in {"ok", "throw"} :
          req' = [req EXCEPT ![r] = CheckoutCreateStep(req[r], o)]
    /\ UNCHANGED <<favorites, bookings, user_stats, user_settings, users, user_stats_rows, collections, collection_rooms>>

\* Requests for a checkout session; they share no state.
NextCheckout ==
    \/ \E r \in Slots, amt \in Amounts : CheckoutArrive(r, amt)
    \/ \E r \in Slots : CheckoutValidate(r) \/ CheckoutCreate(r)

SpecCheckout == Init /\ [][NextCheckout]_vars

\* =========================================================================
\* Profiles (routes/auth.js: register, login, /me, /verify-token)
\* =========================================================================

\* The status of register and login when createUserProfile returned.
ProfileSuccess(kind) == IF kind = "register" THEN 201 ELSE 200

\* The status when createUserProfile threw: register's catch answers 400,
\* login's inner catch still answers 200 with the session.
ProfileFailure(kind) == IF kind = "register" THEN 400 ELSE 200

\* supabase.auth.signUp / signInWithPassword.  An error of signUp is
\* thrown to the catch (400); login answers 400 for an error and 500 when
\* the call throws.
SignInStep(q, o) ==
    IF o = "ok" THEN [q EXCEPT !.pc = "profile_check"]
    ELSE Respond([q EXCEPT !.failedAt = "signin", !.failedHow = o],
                 IF q.kind = "login" /\ o = "throw" THEN 500 ELSE 400)

\* createUserProfile, the lookup of the users row: .single() gives the row
\* when exactly one matches and PGRST116 otherwise, which is not thrown.
ProfileCheckStep(q, o, rows) ==
    LET q1 == Called(q, o, "check") IN
    IF Failed(o) THEN Respond(q1, ProfileFailure(q.kind))
    ELSE IF rows = 1
    THEN Respond([q1 EXCEPT !.matched = rows, !.principal = q.user],
                 ProfileSuccess(q.kind))
    ELSE [q1 EXCEPT !.matched = rows, !.pc = "profile_user"]

\* The insert into users.  users.id is the primary key: an insert for an
\* id that has a row is answered with an error.
UserInsertOutcome(o, rows) == IF o = "ok" /\ rows > 0 THEN "error" ELSE o

ProfileUserStep(q, o) ==
    LET q1 == Called(q, o, "users") IN
    IF Failed(o) THEN Respond(q1, ProfileFailure(q.kind))
    ELSE [q1 EXCEPT !.inserted = 1, !.pc = "profile_stats"]

\* The insert of the user_stats row {bookings: 0, favorites: 0, reviews: 0}.
ProfileStatsStep(q, o) ==
    LET q1 == Called(q, o, "stats") IN
    IF Failed(o) THEN Respond(q1, ProfileFailure(q.kind))
    ELSE Respond([q1 EXCEPT !.principal = q.user], ProfileSuccess(q.kind))

\* GET /me: the users row of the principal with .single(); any error,
\* the missing row included, is thrown to the catch.
MeStep(q, o, rows) ==
    LET q1 == [Called(q, o, "me") EXCEPT !.matched = rows] IN
    IF o = "ok" /\ rows = 1
    THEN Respond([q1 EXCEPT !.principal = q.user], 200)
    ELSE Respond(q1, 500)

\* /verify-token: the same lookup; with an error the basic information of
\* req.user is returned, and a throw is answered 401.
VerifyTokenStep(q, o, rows) ==
    LET q1 == [Called(q, o, "verify") EXCEPT !.matched = rows] IN
    IF o = "throw" THEN Respond(q1, 401)
    ELSE Respond([q1 EXCEPT !.principal = q.user], 200)

\* register and login for the account of user u.
ProfileArrive(r, kind, u) ==
    /\ req[r].pc = "idle"
    /\ req' = [req EXCEPT ![r] =
                 [IdleReq EXCEPT !.kind = kind, !.pc = "signin",
                                 !.module = "auth", !.user = u]]
    /\ UNCHANGED <<favorites, bookings, user_stats, user_settings, users, user_stats_rows, collections, collection_rooms>>

SignIn(r) ==
    /\ req[r].kind \in {"register", "login"} /\ req[r].pc = "signin"
    /\ \E o \in Outcomes : req' = [req EXCEPT ![r] = SignInStep(req[r], o)]
    /\ UNCHANGED <<favorites, bookings, user_stats, user_settings, users, user_stats_rows, collections, collection_rooms>>

ProfileCheck(r) ==
    /\ req[r].pc = "profile_check"
    /\ \E o \in Outcomes :
          req' = [req EXCEPT ![r] = ProfileCheckStep(req[r], o, users[req[r].user])]
    /\ UNCHANGED <<favorites, bookings, user_stats, user_settings, users, user_stats_rows, collections, collection_rooms>>

ProfileUser(r) ==
    /\ req[r].pc = "profile_user"
    /\ \E o \in Outcomes :
          LET u == req[r].user
              oo == UserInsertOutcome(o, users[u]) IN
          /\ req' = [req EXCEPT ![r] = ProfileUserStep(req[r], oo)]
          /\ users' = IF oo = "ok" THEN [users EXCEPT ![u] = @ + 1] ELSE users
    /\ UNCHANGED <<favorites, bookings, user_stats, user_settings, user_stats_rows, collections, collection_rooms>>

ProfileStats(r) ==
    /\ req[r].pc = "profile_stats"
    /\ \E o \in Outcomes :
          /\ req' = [req EXCEPT ![r] = ProfileStatsStep(req[r], o)]
          /\ user_stats_rows' =
                IF o = "ok" THEN [user_stats_rows EXCEPT ![req[r].user] = @ + 1]
                ELSE user_stats_rows
    /\ UNCHANGED <<favorites, bookings, user_stats, user_settings, users, collections, collection_rooms>>

\* /me and /verify-token behind the authenticator of routes/auth.js.
PrincipalArrive(r, kind, h) ==
    /\ req[r].pc = "idle"
    /\ req' = [req EXCEPT ![r] = [IdleReq EXCEPT !.kind = kind, !.pc = "header",
                                                 !.module = "auth", !.header = h]]
    /\ UNCHANGED <<favorites, bookings, user_stats, user_settings, users, user_stats_rows, collections, collection_rooms>>

PrincipalAuth(r) ==
    /\ req[r].kind \in {"me", "verify"}
    /\ \/ /\ req[r].pc = "header"
          /\ req' = [req EXCEPT ![r] = AuthHeaderStep(req[r])]
       \/ /\ req[r].pc = "getUser"
          /\ \E a \in Answers(req[r].token) :
                req' = [req EXCEPT ![r] = AuthGetUserStep(req[r], a)]
    /\ UNCHANGED <<favorites, bookings, user_stats, user_settings, users, user_stats_rows, collections, collection_rooms>>

Me(r) ==
    /\ req[r].kind = "me" /\ req[r].pc = "handler"
    /\ \E o \in Outcomes :
          req' = [req EXCEPT ![r] = MeStep(req[r], o, users[req[r].user])]
    /\ UNCHANGED <<favorites, bookings, user_stats, user_settings, users, user_stats_rows, collections, collection_rooms>>

VerifyToken(r) ==
    /\ req[r].kind = "verify" /\ req[r].pc = "handler"
    /\ \E o \in Outcomes :
          req' = [req EXCEPT ![r] = VerifyTokenStep(req[r], o, users[req[r].user])]
    /\ UNCHANGED <<favorites, bookings, user_stats, user_settings, users, user_stats_rows, collections, collection_rooms>>

\* The accounts exist in the identity backend; the users and user_stats
\* tables are empty until the first register or login.
InitProfile ==
    /\ req = [r \in Slots |-> IdleReq]
    /\ favorites = [p \in Users \X RoomIds |-> 0]
    /\ bookings = << >>
    /\ user_stats = [u \in Users |-> [bookings |-> 0, favorites |-> 0]]
    /\ user_settings = << >>
    /\ users = [u \in Users |-> 0]
    /\ user_stats_rows = [u \in Users |-> 0]
    /\ collections = InitCollections
    /\ collection_rooms = InitCollectionRooms

ProfileSteps(r) ==
    SignIn(r) \/ ProfileCheck(r) \/ ProfileUser(r) \/ ProfileStats(r)

\* Concurrent register and login calls for user u1.
NextProfile ==
    \/ \E r \in Slots, kind \in {"register", "login"} : ProfileArrive(r, kind, "u1")
    \/ \E r \in Slots : ProfileSteps(r) \/ Recycle(r)

SpecProfile == InitProfile /\ [][NextProfile]_vars

\* A principal of the identity backend may or may not have a row in
\* users: the row is written by the first register or login, and not at
\* all when that insert fails.
InitPrincipal ==
    /\ req = [r \in Slots |-> IdleReq]
    /\ favorites = [p \in Users \X RoomIds |-> 0]
    /\ bookings = << >>
    /\ user_stats = [u \in Users |-> [bookings |-> 0, favorites |-> 0]]
    /\ user_settings = << >>
    /\ users \in [Users -> {0, 1}]
    /\ user_stats_rows = users
    /\ collections = InitCollections
    /\ collection_rooms = InitCollectionRooms

\* /me and /verify-token requests; the tables do not change.
NextPrincipal ==
    \/ \E r \in Slots, kind \in {"me", "verify"},
          h \in {<<"Bearer", "t1">>, <<"Bearer", "t2">>, <<"Bearer", "stale">>} :
          PrincipalArrive(r, kind, h)
    \/ \E r \in Slots : PrincipalAuth(r) \/ Me(r) \/ VerifyToken(r)

SpecPrincipal == InitPrincipal /\ [][NextPrincipal]_vars

\* =========================================================================
\* Collections (routes/collections.js, PUT and DELETE /api/collections/:id)
\* =========================================================================

\* roomIds of a PUT body: absent (Nil) or an array, here the set of its ids.
RoomIdLists == {Nil, [ids |-> {}], [ids |-> {"r1"}], [ids |-> {"r1", "r2"}]}

\* select('id').eq('id', id).eq('user_id', user).single() finds a row.
OwnCollection(colls, id, u) == colls[id] # Nil /\ colls[id].user_id = u

\* The ownership check of PUT and DELETE: an error or no row is 404.
CollCheckStep(q, o, colls) ==
    LET q1 == Called(q, o, "check") IN
    IF o = "throw" THEN Respond(q1, 500)
    ELSE IF o = "error" \/ ~OwnCollection(colls, q.collId, q.user) THEN Respond(q1, 404)
    ELSE [q1 EXCEPT !.pc = IF q.kind = "collPut" THEN "coll_update" ELSE "coll_delete"]

\* update({ name, description }).eq('id', id).select().single(), and the
\* test `if (roomIds)`: an array, the empty one too, is truthy.
CollUpdateStep(q, o) ==
    LET q1 == Called(q, o, "update") IN
    IF o # "ok" THEN Respond(q1, 500)
    ELSE IF q.roomIds = Nil THEN Respond(q1, 200)
    ELSE [q1 EXCEPT !.pc = "coll_rooms_delete"]

\* delete().eq('collection_id', id), and the test `roomIds.length > 0`.
CollRoomsDeleteStep(q, o) ==
    LET q1 == Called(q, o, "rooms_delete") IN
    IF o # "ok" THEN Respond(q1, 500)
    ELSE IF q.roomIds.ids = {} THEN Respond(q1, 200)
    ELSE [q1 EXCEPT !.pc = "coll_rooms_insert"]

\* insert(collectionRooms)
CollRoomsInsertStep(q, o) ==
    Respond(Called(q, o, "rooms_insert"), IF o = "ok" THEN 200 ELSE 500)

\* delete().eq('id', id) of DELETE
CollDeleteStep(q, o) ==
    Respond(Called(q, o, "delete"), IF o = "ok" THEN 200 ELSE 500)

\* PUT (kind collPut) or DELETE (kind collDelete) on /api/collections/:id
\* from user u, past the authenticator.
CollArrive(r, kind, u, id, name, roomIds) ==
    /\ req[r].pc = "idle"
    /\ req' = [req EXCEPT ![r] =
                 [IdleReq EXCEPT !.kind = kind, !.pc = "coll_check",
                                 !.module = "collections", !.next = TRUE,
                                 !.user = u, !.collId = id, !.name = name,
                                 !.roomIds = roomIds,
                                 !.prevColl = collections[id],
                                 !.prevRooms = collection_rooms[id]]]
    /\ UNCHANGED <<favorites, bookings, user_stats, user_settings, users, user_stats_rows, collections, collection_rooms>>

CollCheck(r) ==
    /\ req[r].pc = "coll_check"
    /\ \E o \in Outcomes :
          req' = [req EXCEPT ![r] = CollCheckStep(req[r], o, collections)]
    /\ UNCHANGED <<favorites, bookings, user_stats, user_settings, users, user_stats_rows, collections, collection_rooms>>

CollUpdate(r) ==
    /\ req[r].pc = "coll_update"
    /\ \E o \in Outcomes :
          /\ req' = [req EXCEPT ![r] = CollUpdateStep(req[r], o)]
          /\ collections' =
                IF o = "ok" /\ collections[req[r].collId] # Nil
                THEN [collections EXCEPT ![req[r].collId].name = req[r].name]
                ELSE collections
    /\ UNCHANGED <<favorites, bookings, user_stats, user_settings, users, user_stats_rows, collection_rooms>>

CollRoomsDelete(r) ==
    /\ req[r].pc = "coll_rooms_delete"
    /\ \E o \in Outcomes :
          /\ req' = [req EXCEPT ![r] = CollRoomsDeleteStep(req[r], o)]
          /\ collection_rooms' =
                IF o = "ok" THEN [collection_rooms EXCEPT ![req[r].collId] = {}]
                ELSE collection_rooms
    /\ UNCHANGED <<favorites, bookings, user_stats, user_settings, users, user_stats_rows, collections>>

CollRoomsInsert(r) ==
    /\ req[r].pc = "coll_rooms_insert"
    /\ \E o \in Outcomes :
          /\ req' = [req EXCEPT ![r] = CollRoomsInsertStep(req[r], o)]
          /\ collection_rooms' =
                IF o = "ok"
                THEN [collection_rooms EXCEPT ![req[r].collId] = @ \cup req[r].roomIds.ids]
                ELSE collection_rooms
    /\ UNCHANGED <<favorites, bookings, user_stats, user_settings, users, user_stats_rows, collections>>

\* The collection goes, and its collection_rooms rows with it (CASCADE).
CollDelete(r) ==
    /\ req[r].pc = "coll_delete"
    /\ \E o \in Outcomes :
          /\ req' = [req EXCEPT ![r] = CollDeleteStep(req[r], o)]
          /\ collections' =
                IF o = "ok" THEN [collections EXCEPT ![req[r].collId] = Nil]
                ELSE collections
          /\ collection_rooms' =
                IF o = "ok" THEN [collection_rooms EXCEPT ![req[r].collId] = {}]
                ELSE collection_rooms
    /\ UNCHANGED <<favorites, bookings, user_stats, user_settings, users, user_stats_rows>>

\* PUT and DELETE requests of both users, one at a time.
NextCollections ==
    \/ \E u \in Users, id \in CollectionIds :
          \/ \E name \in {Undefined, "n1"}, roomIds \in RoomIdLists :
                CollArrive(1, "collPut", u, id, name, roomIds)
          \/ CollArrive(1, "collDelete", u, id, Undefined, Nil)
    \/ CollCheck(1)
    \/ CollUpdate(1)
    \/ CollRoomsDelete(1)
    \/ CollRoomsInsert(1)
    \/ CollDelete(1)
    \/ Recycle(1)

SpecCollections == Init /\ [][NextCollections]_vars

\* =========================================================================
\* Claims about the authenticators (SpecAuth)
\* =========================================================================

AuthReqs == {r \in Slots : req[r].kind = "auth"}

\* The identity backend returned a non-null principal without error.
GotPrincipal(q) == q.answer = "user" /\ q.user # NoUser

\* C4: in every module a handler behind authenticateUser runs only if the
\* request carried an Authorization header and the identity backend returned
\* a non-null principal without error; when the header is missing or the
\* backend answers with an error or with no principal, the authenticator
\* responds 401 and does not call next(); no handler observes a null
\* req.user.  (An exception of the backend call is the case of C6 and is not
\* counted against this statement.)
C4_HandlerOnlyWithPrincipal ==
    \A r \in AuthReqs :
        LET q == req[r] IN
        /\ (q.next \/ q.pc = "handler" \/ q.sawUser # "none")
              => (q.header # << >> /\ GotPrincipal(q))
        /\ q.sawUser # NoUser
        /\ (q.pc = "done" /\ (q.header = << >> \/ q.answer \in {"error", "nouser"}))
              => (q.status = 401 /\ ~q.next)

\* C5: for an Authorization header with no second segment every module's
\* authenticator responds 401 itself: it builds no client from the undefined
\* token and never asks the identity backend.
C5_MalformedHeaderRejectedLocally ==
    \A r \in AuthReqs :
        LET q == req[r] IN
        (q.header # << >> /\ Falsy(SplitToken(q.header)) /\ q.pc # "header")
            => /\ q.authClient = NoClient
               /\ q.answer = "none"
               /\ q.pc = "done" /\ q.status = 401

\* C6: in every module, when the call to the identity backend throws, the
\* response is 500, not 401, and the handler does not run.
C6_BackendThrowIs500 ==
    \A r \in AuthReqs :
        LET q == req[r] IN
        q.answer = "throw" => (q.pc = "done" /\ q.status = 500 /\ ~q.next)

\* C7: every query issued by a handler behind the authenticator goes through
\* the request-scoped client bound to the request's bearer token, never
\* through a module-level client; in the settings and users modules too.
C7_QueriesUseScopedClient ==
    \A r \in AuthReqs :
        LET q == req[r] IN
        (GotPrincipal(q) /\ q.dbOps > 0)
            => (q.usedClient = q.token /\ q.usedClient # ModuleClient)

\* =========================================================================
\* Claims about the payment webhook (SpecWebhook)
\* =========================================================================

WebhookReqs == {r \in Slots : req[r].kind = "webhook"}

\* A verified checkout.session.completed event whose customer email resolves
\* to a user and whose metadata room_id names an existing room.
BookableEvent(q) ==
    /\ q.sigValid
    /\ q.evType = "checkout.session.completed"
    /\ UserByEmail(q.email) # NoUser
    /\ RoomExists(q.roomId)

\* C1: a webhook POST whose signature verification fails is answered 400 and
\* performs no database call (no users or rooms lookup, no bookings insert,
\* no user_stats update), whatever the event type in the payload.
C1_InvalidSignatureNoDb ==
    \A r \in WebhookReqs :
        LET q == req[r] IN
        ~q.sigValid
            => /\ q.dbOps = 0 /\ q.inserted = 0 /\ q.statDelta = 0
               /\ q.pc \in {"wh_verify", "done"}
               /\ q.pc = "done" => q.status = 400

\* C1 witness: a bookable completed event with a bad signature was rejected.
C1_Witness ==
    \E r \in WebhookReqs :
        LET q == req[r] IN
        /\ ~q.sigValid /\ q.evType = "checkout.session.completed"
        /\ UserByEmail(q.email) # NoUser /\ RoomExists(q.roomId)
        /\ q.pc = "done" /\ q.status = 400

\* C2: for every verified checkout.session.completed event whose customer
\* email resolves to a user and whose room exists, the handler inserts exactly
\* one bookings row for that user and room with payment_status 'paid' and
\* payment_session_id equal to the session id, increases that user's
\* user_stats.bookings by exactly one, and responds 2xx.  (Stated for the
\* deliveries whose two lookups and whose insert the backend answered without
\* failure.)
C2_CompletedEventBooksAndCounts ==
    \A r \in WebhookReqs :
        LET q == req[r] IN
        (q.pc = "done" /\ BookableEvent(q) /\ q.failedAt \notin {"user", "room", "insert"})
            => /\ q.inserted = 1
               /\ q.rowId \in 1..Len(bookings)
               /\ bookings[q.rowId].user_id = UserByEmail(q.email)
               /\ bookings[q.rowId].room_id = q.roomId
               /\ bookings[q.rowId].payment_status = "paid"
               /\ bookings[q.rowId].payment_session_id = q.sessionId
               /\ q.statDelta = 1
               /\ Is2xx(q.status)

\* C3: whenever a step of handling a verified checkout.session.completed
\* event fails (user lookup, room lookup, booking insert or the user_stats
\* update), the response is non-2xx; a 2xx response is sent only when every
\* step succeeded.
C3_StepFailureIsNon2xx ==
    \A r \in WebhookReqs :
        LET q == req[r] IN
        (q.pc = "done" /\ q.sigValid /\ q.evType = "checkout.session.completed"
            /\ Is2xx(q.status))
            => (q.failedAt = "none" /\ q.inserted = 1 /\ q.statDelta = 1)

\* =========================================================================
\* Claims about favorites (SpecFavSeq, SpecFav)
\* =========================================================================

FavReqs == {r \in Slots : req[r].kind = "favPost"}

\* Both requests are answered POSTs of the same user for the same existing room.
SamePairDone(a, b) ==
    /\ a.pc = "done" /\ b.pc = "done"
    /\ a.user = b.user /\ a.roomId = b.roomId /\ RoomExists(a.roomId)

C9_FavoritePairsUnique ==
    \A u \in Users, room \in RoomIds : favorites[<<u, room>>] <= 1

\* =========================================================================
\* Claims about bookings (SpecBook)
\* =========================================================================

BookReqs == {r \in Slots : req[r].kind = "bookPost"}

\* n = ceil(a / b), said without the division: the least n with n * b >= a.
IsCeilOf(n, a, b) == n * b >= a /\ (n - 1) * b < a

\* C10: the price POST /api/bookings writes to the booking row equals
\* room.price * ceil((endDate - startDate) / 86400000), with room.price read
\* in the same request; a room priced 100 booked from 2024-04-10 to
\* 2024-04-12 gets price 200.
C10_BookingPrice ==
    \A r \in BookReqs :
        LET q == req[r] IN
        q.inserted = 1
            => /\ q.rowId \in 1..Len(bookings)
               /\ q.roomPrice = RoomPrice(q.roomId)
               /\ \E n \in -3..3 :
                     /\ IsCeilOf(n, DateMs(q.endDate) - DateMs(q.startDate), 86400000)
                     /\ bookings[q.rowId].price = q.roomPrice * n
               /\ (q.roomPrice = 100 /\ q.startDate = "2024-04-10"
                      /\ q.endDate = "2024-04-12")
                     => bookings[q.rowId].price = 200

\* C10 witness: a 201 response for the room priced 100 booked from
\* 2024-04-10 to 2024-04-12, whose row carries price 200.
C10_Witness ==
    \E r \in BookReqs :
        LET q == req[r] IN
        /\ q.pc = "done" /\ q.status = 201 /\ q.roomPrice = 100
        /\ q.startDate = "2024-04-10" /\ q.endDate = "2024-04-12"
        /\ bookings[q.rowId].price = 200

\* The room lookup of the request returned { error }, or returned no row.
RoomLookupFailed(q) ==
    /\ q.pc # "book_room"
    /\ \/ (q.failedAt = "room" /\ q.failedHow = "error")
       \/ (q.failedAt = "none" /\ q.roomId = "r9")

\* C12: when POST /api/bookings names a roomId for which the room lookup
\* returns an error or no row, the response is 404 and neither the bookings
\* table nor user_stats is changed.
C12_MissingRoomIs404 ==
    \A r \in BookReqs :
        LET q == req[r] IN
        RoomLookupFailed(q)
            => /\ q.pc = "done" /\ q.status = 404
               /\ q.dbOps = 1 /\ q.inserted = 0 /\ q.statDelta = 0
               /\ bookings = << >>
               /\ \A u \in Users : user_stats[u].bookings = 0

\* C12 witness: room r9 does not exist; the lookup returned no row and the
\* request was answered 404 with the tables as they were.
C12_Witness ==
    \E r \in BookReqs :
        LET q == req[r] IN
        /\ q.roomId = "r9" /\ q.failedAt = "none"
        /\ q.pc = "done" /\ q.status = 404 /\ bookings = << >>

\* The rows of the bookings table that belong to user u.
RowsOf(u) == {i \in 1..Len(bookings) : bookings[i].user_id = u}

\* C13: every POST /api/bookings that inserts a booking row inserts it with
\* status 'active', increases the caller's user_stats.bookings by exactly one
\* and responds 201; so once the requests are answered, user_stats.bookings
\* of a user equals its initial value (0) plus the number of rows inserted
\* for that user.
C13_InsertCountsAndIs201 ==
    /\ \A r \in BookReqs :
          LET q == req[r] IN
          (q.pc = "done" /\ q.inserted = 1)
              => /\ q.rowId \in 1..Len(bookings)
                 /\ bookings[q.rowId].status = "active"
                 /\ q.statDelta = 1
                 /\ q.status = 201
    /\ (\A r \in Slots : ~InFlight(req[r]))
          => \A u \in Users : user_stats[u].bookings = Cardinality(RowsOf(u))

\* =========================================================================
\* Claims about concurrent creations (SpecConc)
\* =========================================================================

\* The creation requests of one kind issued by user u.
Creations(kind, u) == {r \in Slots : req[r].kind = kind /\ req[r].user = u}

C14_WitnessFavorites ==
    \E r1 \in Slots, r2 \in Slots :
        /\ r1 < r2
        /\ req[r1].kind = "favPost" /\ req[r2].kind = "favPost"
        /\ req[r1].user = req[r2].user /\ req[r1].roomId # req[r2].roomId
        /\ req[r1].pc = "done" /\ req[r2].pc = "done"
        /\ req[r1].inserted = 1 /\ req[r2].inserted = 1
        /\ user_stats[req[r1].user].favorites < 2

\* =========================================================================
\* Claims about the bookings table (SpecLedger)
\* =========================================================================

\* The night count of the row's date range times the room's price.
PriceFromRoom(row) ==
    \E n \in -3..3 :
        /\ IsCeilOf(n, DateMs(row.end_date) - DateMs(row.start_date), 86400000)
        /\ row.price = RoomPrice(row.room_id) * n

\* C11: in every reachable state every bookings row, written by POST
\* /api/bookings or by the payment webhook, has a price equal to the room's
\* price multiplied by the night count of its date range, whatever
\* operations (cancel, webhook retry) followed its creation.
C11_RowPriceFromRoom ==
    \A i \in 1..Len(bookings) : PriceFromRoom(bookings[i])

\* The price of a stored row never changes.
C11_PriceKept ==
    [][\A i \in 1..Len(bookings) : bookings'[i].price = bookings[i].price]_vars

\* =========================================================================
\* Claims about settings (SpecSettings)
\* =========================================================================

\* The four sub-objects of a returned record are the synthesized defaults.
IsDefaults(rec, now) ==
    /\ rec.notifications = [email |-> TRUE, push |-> TRUE, sms |-> FALSE,
                            marketing |-> FALSE]
    /\ rec.privacy = [profileVisibility |-> "public", activityVisibility |-> "private"]
    /\ rec.security = [twoFactorAuth |-> FALSE, lastPasswordChange |-> now]
    /\ rec.preferences = [currency |-> "MXN", darkMode |-> FALSE, language |-> "es",
                          timezone |-> "America/Mexico_City"]

\* Request b is a GET for the same user that directly follows the GET a.
GetThenGet(r1, r2) ==
    /\ r2 = r1 + 1
    /\ req[r1].kind = "setGet" /\ req[r2].kind = "setGet"
    /\ req[r1].target = req[r2].target
    /\ req[r1].pc = "done" /\ req[r2].pc = "done"
    /\ req[r1].failedAt = "none" /\ req[r2].failedAt = "none"

\* C15: for a user with no stored user_settings row, GET /api/settings
\* upserts a row and returns a record whose notifications, privacy, security
\* and preferences equal the synthesized defaults; an immediately following
\* GET for the same user finds that stored row (non-null id) and performs no
\* further write.  (Stated for requests whose backend calls were answered.)
C15_FirstGetStoresDefaults ==
    /\ \A r \in Slots :
          LET q == req[r] IN
          (q.kind = "setGet" /\ q.pc = "done" /\ q.failedAt = "none"
              /\ q.rowsAtStart = 0)
              => /\ q.status = 200 /\ q.inserted = 1
                 /\ IsDefaults(q.returned, q.now)
                 /\ q.returned.id # Null
                 /\ SettingsRowsOf(user_settings, q.target) # {}
    /\ \A r1 \in Slots, r2 \in Slots :
          (GetThenGet(r1, r2) /\ req[r1].rowsAtStart = 0)
              => /\ req[r2].status = 200
                 /\ req[r2].inserted = 0 /\ req[r2].dbOps = 2
                 /\ req[r2].returned.id # Null
                 /\ req[r2].returned = req[r1].returned
                 /\ req[r2].rowId = req[r1].rowId

\* C15 witness: two GETs in a row for a user without a stored row, at
\* different times; the second returned the row the first one stored.
C15_Witness ==
    \E r1 \in Slots, r2 \in Slots :
        /\ GetThenGet(r1, r2) /\ req[r1].rowsAtStart = 0
        /\ req[r1].now = "T1" /\ req[r2].now = "T2"
        /\ req[r1].inserted = 1 /\ req[r2].inserted = 0
        /\ req[r2].returned.security.lastPasswordChange = "T1"

\* A request of a settings endpoint that was answered with a record.
ReturnedRecord(q) ==
    q.kind \in {"setGet", "setPut"} /\ q.pc = "done" /\ q.status = 200

\* C16: every settings record returned by a settings endpoint (fetch or
\* update, own or by user id) has all four sub-objects with every default
\* field present: a nested field the stored row lacks is filled from the
\* default sub-value, while stored values win.
C16_ReturnedRecordComplete ==
    \A r \in Slots :
        LET q == req[r] IN
        ReturnedRecord(q)
            => /\ DOMAIN q.returned.notifications = {"email", "push", "sms", "marketing"}
               /\ DOMAIN q.returned.privacy = {"profileVisibility", "activityVisibility"}
               /\ DOMAIN q.returned.security = {"twoFactorAuth", "lastPasswordChange"}
               /\ DOMAIN q.returned.preferences =
                      {"currency", "darkMode", "language", "timezone"}
               /\ (q.rowId \in 1..Len(user_settings)
                      /\ user_settings[q.rowId].notifications # Nil)
                     => \A f \in DOMAIN user_settings[q.rowId].notifications :
                           q.returned.notifications[f] =
                               user_settings[q.rowId].notifications[f]

\* A PUT with a partial body whose update was answered without error and
\* touched no row, and whose fallback insert was performed.
FallbackStored(q) ==
    /\ q.kind = "setPut" /\ q.pc = "done" /\ q.status = 200
    /\ q.rowsAtStart = 0 /\ q.failedAt = "none" /\ q.inserted = 1
    /\ q.rowId \in 1..Len(user_settings)

\* The value the partial gives to the preference f, or the default d.
PartialOr(body, f, d) ==
    IF body.preferences # Nil /\ f \in DOMAIN body.preferences
    THEN body.preferences[f] ELSE d

\* C17: when PUT /api/settings is called with a partial body for a user
\* whose update affects zero rows, the fallback write stores a row in which
\* every field named in the partial has the partial's value and every field
\* the partial omits has its default value, and the stored row is returned.
C17_FallbackSeedsDefaults ==
    \A r \in Slots :
        LET q == req[r]
            row == user_settings[q.rowId] IN
        FallbackStored(q)
            => /\ row.user_id = q.target
               /\ row.notifications =
                     (IF q.body.notifications # Nil THEN q.body.notifications
                      ELSE [email |-> TRUE, push |-> TRUE, sms |-> FALSE,
                            marketing |-> FALSE])
               /\ row.privacy =
                     (IF q.body.privacy # Nil THEN q.body.privacy
                      ELSE [profileVisibility |-> "public",
                            activityVisibility |-> "private"])
               /\ row.security =
                     (IF q.body.security # Nil THEN q.body.security
                      ELSE [twoFactorAuth |-> FALSE, lastPasswordChange |-> q.now])
               /\ row.currency = PartialOr(q.body, "currency", "MXN")
               /\ row.language = PartialOr(q.body, "language", "es")
               /\ row.timezone = PartialOr(q.body, "timezone", "America/Mexico_City")
               /\ (row.theme = "dark") = PartialOr(q.body, "darkMode", FALSE)
               /\ q.returned.id = row.id

\* =========================================================================
\* Claims about the list endpoints (SpecList)
\* =========================================================================

ListReqs == {r \in Slots : req[r].kind = "list"}

\* C18: for every page and limit accepted by a list endpoint, defaulted or
\* supplied as query parameters, the row range requested from the backend is
\* from = (page-1)*limit and to = from+limit-1, so the range spans exactly
\* limit rows.
C18_RangeSpansLimit ==
    \A r \in ListReqs :
        LET q == req[r] IN
        /\ q.rangeFrom = (q.page.v - 1) * q.limit.v
        /\ q.rangeTo = q.rangeFrom + q.limit.v - 1
        /\ q.rangeTo - q.rangeFrom + 1 = q.limit.v

\* C19: for all page, limit pairs the pagination envelope of a list endpoint
\* satisfies totalPages = ceil(total/limit) and hasMore = (page <
\* totalPages), where total is the number of rows matching the request's
\* filters.
C19_EnvelopeFromTotal ==
    \A r \in ListReqs :
        LET q == req[r] IN
        (q.pc = "done" /\ q.status = 200)
            => /\ IsCeilOf(q.pagination.totalPages, q.matching, q.limit.v)
               /\ q.pagination.hasMore = (q.page.v < q.pagination.totalPages)

\* C20: on the list endpoints that accept sort (rooms, favorites) the
\* results are ordered ascending for every sort value whose direction part
\* is anything other than the literal 'desc' (a sort value without a
\* direction part and the endpoint's default sort included), and descending
\* only when the direction is 'desc'.
C20_AscendingUnlessDesc ==
    \A r \in ListReqs :
        LET q == req[r]
            desc == Len(q.sort) >= 2 /\ q.sort[2] = "desc" IN
        (q.endpoint \in {"rooms", "favorites"} /\ q.pc = "done" /\ q.status = 200)
            => /\ q.ascending = ~desc
               /\ \A i \in 1..(Len(q.data) - 1) :
                     IF desc THEN q.data[i] > q.data[i + 1]
                     ELSE q.data[i] < q.data[i + 1]

\* =========================================================================
\* Claims about checkout sessions (SpecCheckout)
\* =========================================================================

CheckoutReqs == {r \in Slots : req[r].kind = "checkout"}

\* The amount is a number, or a string that is a numeral.
NumericAmount(x) == x.t = "number" \/ (x.t = "string" /\ x.s \in {"150", "-5"})

\* The amount is numeric and greater than 0.
PositiveAmount(x) ==
    \/ (x.t = "number" /\ x.milli > 0)
    \/ (x.t = "string" /\ x.s = "150")

\* C21: POST /api/payments/create-checkout-session with an amount that is
\* missing, non-numeric or <= 0 responds 400 and never calls the payment
\* processor to create a session; the processor is called only for a
\* numeric amount > 0 (amount 0 is rejected; 150.5 reaches the processor as
\* the minor-unit amount 15050).
C21_InvalidAmountRejected ==
    \A r \in CheckoutReqs :
        LET q == req[r] IN
        /\ (q.pc # "co_validate" /\ ~PositiveAmount(q.amount))
              => (q.pc = "done" /\ q.status = 400 /\ q.stripeCalls = 0)
        /\ (q.pc = "co_create" \/ q.stripeCalls > 0) => PositiveAmount(q.amount)
        /\ (q.stripeCalls > 0 /\ q.amount = [t |-> "number", milli |-> 150500])
              => q.unitAmount = 15050

\* =========================================================================
\* Claims about the profiles (SpecPrincipal, SpecProfile)
\* =========================================================================

\* A /me or /verify-token request that passed the authenticator and whose
\* lookup the backend answered.
Answered(r, kind) ==
    /\ req[r].kind = kind /\ req[r].pc = "done"
    /\ req[r].user # NoUser /\ req[r].dbOps = 1 /\ req[r].failedAt = "none"

\* C22: for every valid token, /api/auth/verify-token and /api/auth/me
\* return the same principal id, in every backend state including the one
\* where the principal has no row in the users table.
C22_SamePrincipal ==
    \A r1, r2 \in Slots :
        (/\ Answered(r1, "me") /\ Answered(r2, "verify")
         /\ req[r1].token = req[r2].token)
        => /\ req[r1].principal = req[r2].principal
           /\ req[r1].principal = TokenUser(req[r1].token)

\* C23: after any sequence of register and login calls, every row in users
\* has exactly one user_stats row.
C23_OneStatsRowPerUser ==
    (\A r \in Slots : ~InFlight(req[r]))
        => \A u \in Users : users[u] > 0 => (users[u] = 1 /\ user_stats_rows[u] = 1)

\* =========================================================================
\* Claims about cancellations (SpecCancel)
\* =========================================================================

\* Request r is the owner's cancel of booking i, at its update.
OwnersCancelAt(r, i) ==
    /\ req[r].kind = "bookCancel" /\ req[r].pc = "cancel_update"
    /\ req[r].bookingId = i /\ req[r].user = bookings[i].user_id

\* C24: a booking's status changes only through PUT /api/bookings/:id/cancel
\* issued by the booking's owner, found active by that request, and only from
\* 'active' to 'cancelled' (so a cancelled booking never becomes active
\* again); a cancel by another user or for a missing id is answered 404 and a
\* cancel of a non-active booking is answered 400, both with the table
\* unchanged.
C24_StatusOnlyByOwnersCancel ==
    [][/\ Len(bookings') = Len(bookings)
       /\ \A i \in 1..Len(bookings) :
             bookings'[i] # bookings[i]
                 => /\ bookings[i].status = "active"
                    /\ bookings'[i] = [bookings[i] EXCEPT !.status = "cancelled"]
                    /\ \E r \in Slots : OwnersCancelAt(r, i) /\ req'[r].status = 200
       /\ \A r \in Slots :
             (req[r].pc = "cancel_check" /\ req'[r].pc # "cancel_check")
                 => LET i == req[r].bookingId
                        own == i \in 1..Len(bookings) /\ bookings[i].user_id = req[r].user IN
                    /\ bookings' = bookings
                    /\ (~own /\ req'[r].failedHow # "throw") => req'[r].status = 404
                    /\ (own /\ bookings[i].status # "active" /\ req'[r].failedAt = "none")
                          => req'[r].status = 400
                    /\ req'[r].pc = "cancel_update"
                          => (own /\ bookings[i].status = "active")
      ]_vars

\* C24 witness: the owner's cancel was answered 200 and the row is cancelled,
\* and another cancel of the same booking by the owner was answered 400.
C24_Witness ==
    \E r1, r2 \in Slots :
        /\ req[r1].kind = "bookCancel" /\ req[r1].pc = "done" /\ req[r1].status = 200
        /\ req[r2].kind = "bookCancel" /\ req[r2].pc = "done" /\ req[r2].status = 400
        /\ req[r1].bookingId = req[r2].bookingId
        /\ req[r1].user = req[r2].user
        /\ bookings[req[r1].bookingId].status = "cancelled"

\* =========================================================================
\* Claims about repeated webhook deliveries (SpecWebhook)
\* =========================================================================

\* The rows of the bookings table created for checkout session sid.
RowsOfSession(sid) == {i \in 1..Len(bookings) : bookings[i].payment_session_id = sid}

\* The checkout sessions user u has a booking row for.
SessionsOf(u) == {bookings[i].payment_session_id : i \in RowsOf(u)}

\* C25: under any sequence of deliveries and retries of the same
\* checkout.session.completed event, the bookings table holds at most one
\* row per payment_session_id and the user's booking counter is increased
\* at most once for that session.
C25_OneBookingPerSession ==
    /\ \A sid \in {"cs_1", "cs_2"} : Cardinality(RowsOfSession(sid)) <= 1
    /\ \A u \in Users : user_stats[u].bookings <= Cardinality(SessionsOf(u))

\* =========================================================================
\* Claims about the favorites counter (SpecFavLedger)
\* =========================================================================

\* The number of rows of user u in the favorites table.
RECURSIVE FavSum(_, _)
FavSum(u, rooms) ==
    IF rooms = {} THEN 0
    ELSE LET room == CHOOSE x \in rooms : TRUE IN
         favorites[<<u, room>>] + FavSum(u, rooms \ {room})

\* C26: after any sequence of POST /api/favorites and DELETE
\* /api/favorites/:roomId calls by one user, user_stats.favorites equals
\* its initial value (0) plus the number of that user's rows in the
\* favorites table, and it never goes below zero.
C26_CounterMatchesRows ==
    /\ \A u \in Users : user_stats[u].favorites >= 0
    /\ (\A r \in Slots : ~InFlight(req[r]))
          => \A u \in Users : user_stats[u].favorites = FavSum(u, RoomIds)

\* =========================================================================
\* Claims about the response of a creation (SpecBook)
\* =========================================================================

\* C27: POST /api/bookings is all-or-nothing with respect to its response:
\* a request answered with an error status (404 or 500) added no bookings
\* row, and a row exists only for requests answered 201.
C27_ErrorMeansNoRow ==
    \A r \in BookReqs :
        LET q == req[r] IN
        /\ (q.pc = "done" /\ q.status \in {404, 500}) => q.inserted = 0
        /\ (q.pc = "done" /\ q.inserted > 0) => q.status = 201

\* =========================================================================
\* Claims about the settings of another user (SpecAdmin)
\* =========================================================================

AdminReqs == {r \in Slots : req[r].endpoint = "settings/user"}

\* C28: a principal who asks for or updates another user's settings through
\* /api/settings/user/:userId without holding the 'admin' role (a principal
\* with no user_roles row included) gets 403, and no user_settings row of
\* the target is read, created or modified.
C28_NonAdminGets403 ==
    \A r \in AdminReqs :
        LET q == req[r] IN
        (q.user # q.target /\ q.role # "admin" /\ q.failedAt \notin {"user_roles", "role"})
            => /\ q.pc \in {"admin_own", "admin_table", "admin_role", "done"}
               /\ q.pc = "done" => q.status = 403
               /\ q.dbOps = 0 /\ q.inserted = 0

\* =========================================================================
\* Claims about collections (SpecCollections)
\* =========================================================================

CollReqs == {r \in Slots : req[r].kind \in {"collPut", "collDelete"}}

\* C29: PUT and DELETE on /api/collections/:id by a principal who does not
\* own the collection respond 404 and leave the collection and its
\* collection_rooms rows unchanged; for the owner, a PUT that carries
\* roomIds leaves the room set equal to roomIds when it responds 2xx and equal
\* to the previous room set when it responds with an error, and a PUT without
\* roomIds leaves the room set unchanged.
C29_CollectionFrame ==
    \A r \in CollReqs :
        LET q == req[r]
            own == q.prevColl # Nil /\ q.prevColl.user_id = q.user IN
        q.pc = "done" =>
            /\ (~own /\ q.failedHow # "throw")
                  => /\ q.status = 404
                     /\ collections[q.collId] = q.prevColl
                     /\ collection_rooms[q.collId] = q.prevRooms
            /\ (own /\ q.kind = "collPut" /\ q.roomIds # Nil)
                  => /\ Is2xx(q.status) => collection_rooms[q.collId] = q.roomIds.ids
                     /\ ~Is2xx(q.status) => collection_rooms[q.collId] = q.prevRooms
            /\ (own /\ q.kind = "collPut" /\ q.roomIds = Nil)
                  => collection_rooms[q.collId] = q.prevRooms

\* =========================================================================
\* Claims about the frame of PUT /api/settings (SpecSettings)
\* =========================================================================

\* The body carries no preferences, or preferences without field f.
OmitsPreference(body, f) == body.preferences = Nil \/ f \notin DOMAIN body.preferences

\* C30: PUT /api/settings on an existing row changes only the fields present
\* in the request body: a body that omits preferences (or omits
\* preferences.darkMode) leaves the stored theme, currency, language and
\* timezone unchanged, and a body that omits notifications, privacy or
\* security leaves those stored objects unchanged.
C30_OmittedFieldsKept ==
    [][\A r \in Slots :
          (/\ req[r].kind = "setPut" /\ req[r].pc = "set_update"
           /\ req'[r].pc = "done" /\ req'[r].status = 200)
          => \A j \in SettingsRowsOf(user_settings, req[r].target) :
                LET b == req[r].body
                    old == user_settings[j]
                    new == user_settings'[j] IN
                /\ b.notifications = Nil => new.notifications = old.notifications
                /\ b.privacy = Nil => new.privacy = old.privacy
                /\ b.security = Nil => new.security = old.security
                /\ OmitsPreference(b, "currency") => new.currency = old.currency
                /\ OmitsPreference(b, "language") => new.language = old.language
                /\ OmitsPreference(b, "timezone") => new.timezone = old.timezone
                /\ OmitsPreference(b, "darkMode") => new.theme = old.theme
      ]_vars

====
